---------------------------- MODULE Spec2Model ----------------------------
(***************************************************************************)
(* Session store (memory_manager.py) + policy evaluator (rule_engine.py)   *)
(* + orchestrator (decision_engine.py) of the BRAIN renewal assistant.     *)
(*                                                                         *)
(* Text is modelled at token granularity: a message is a sequence of       *)
(* tokens, one token per fixed message text of the source, and the keyword *)
(* tests of the source ("tok in summary_norm") are membership tests of     *)
(* the token in the keyword classes computed from the source texts.        *)
(* A dict is a sequence of <<key, value>> pairs in insertion order.        *)
(***************************************************************************)
EXTENDS Integers, Sequences, FiniteSets, TLC

\* ------------------------------------------------------------------- state
VARIABLES
    redis,        \* cache entry session:{id}: the stored state, or NoSession
    redis_ttl,    \* remaining TTL of the cache entry
    in_memory,    \* _in_memory_sessions[id], or NoSession
    pc,           \* position of the running decide: "idle", "loaded", "decided"
    current_state,\* decide's current_state
    message,      \* decide's message
    rule_action,  \* what evaluate_rules returned in this turn (NoAction for None)
    chosen_action,\* decide's chosen_action
    evalIn,       \* the state evaluate_rules was given in this turn
    phaseSeen,    \* phase seen by the latest evaluate_rules
    intentSeen,   \* current_intent given to the latest evaluate_rules
    prevPhase,    \* phase seen by the evaluate_rules before the latest
    prevIntent,   \* current_intent given to the evaluate_rules before the latest
    notifyCount,  \* how often evaluate_rules returned notify_human_renovation_lead
    pricingCount, \* how often evaluate_rules returned provide_pricing_info
    turns,        \* number of turns started
    last_saved,   \* the state the latest update_session_state stored, or NoSession
    pg_conn,      \* self.pg_conn is a connection (TRUE) or None (FALSE)
    conversation_log, \* rows of table conversation_log of this user, oldest first
    user_profiles,\* the row of table user_profiles of this user, or NoSession
    pg_failed,    \* the latest update_session_state reported "PostgreSQL persist failed"
    redisB,       \* cache entry of a second session id, or NoSession
    in_memoryB,   \* _in_memory_sessions entry of the second session id
    user_id2,     \* user_id of a second decide call running in the same process
    pc2,          \* position of the second decide call
    current_state2, \* the second call's current_state
    message2,     \* the second call's message
    chosen_action2, \* the second call's chosen_action
    aloneRedisB,  \* cache entry of the second session in the run without the first
    aloneMemB,    \* fallback-map entry of the second session in that run
    alone2,       \* the state the second call merged in that run
    arg,          \* argument of the helper function under test
    result        \* what the helper function returned for arg

\* ------------------------------------------------------------------ bounds
\* turns of one session
MaxTurns == 3

\* the limit of conversation_summary (from the environment; 4000 characters
\* by default), here a number of tokens: a turn adds up to six tokens, so the
\* summary is cut from the second turn on
SUMMARY_MAX_CHARS == 8

\* ------------------------------------------------------- program constants
SESSION_TTL_SECONDS == 1800

\* what the cache reports as TTL of a key that has no expiry set
NoExpiry == -1

\* ------------------------------------------------------------- primitives
NoVal    == "<None>"
IntZero  == "<0>"
NoSession == [absent |-> TRUE]

\* Python truthiness of an entity / state value
Truthy(v) == v \notin {NoVal, "", IntZero}

\* Python values of the types a flag may be stored as; a str is the
\* sequence of its characters
PyBool(b) == [py |-> "bool", b |-> b]
PyInt(n)  == [py |-> "int", n |-> n]
PyStr(s)  == [py |-> "str", s |-> s]
PyList(l) == [py |-> "list", l |-> l]
PyNone    == [py |-> "NoneType"]

\* str.lower() on the characters that occur
LowerChar(c) ==
    CASE c = "T" -> "t" [] c = "R" -> "r" [] c = "U" -> "u" [] c = "E" -> "e"
      [] c = "Y" -> "y" [] c = "S" -> "s" [] c = "I" -> "i" [] c = "Í" -> "í"
      [] c = "F" -> "f" [] c = "A" -> "a" [] c = "L" -> "l" [] c = "N" -> "n"
      [] c = "O" -> "o"
      [] OTHER -> c

Lower(s) == [i \in 1..Len(s) |-> LowerChar(s[i])]

\* str.strip()
RECURSIVE LStrip(_)
LStrip(s) == IF s # <<>> /\ Head(s) = " " THEN LStrip(Tail(s)) ELSE s

RECURSIVE RStrip(_)
RStrip(s) ==
    IF s # <<>> /\ s[Len(s)] = " " THEN RStrip(SubSeq(s, 1, Len(s) - 1)) ELSE s

Strip(s) == RStrip(LStrip(s))

\* bool(v) for a value that is neither bool, int nor str
PyTruth(v) ==
    CASE v.py = "NoneType" -> FALSE
      [] v.py = "list" -> v.l # <<>>

\* dict.get(k) on an insertion-ordered dict
Get(d, k) ==
    IF \E i \in 1..Len(d) : d[i][1] = k
    THEN d[CHOOSE i \in 1..Len(d) : d[i][1] = k][2]
    ELSE NoVal

Keys(d) == {d[i][1] : i \in 1..Len(d)}

\* d[k] = v : an existing key keeps its position, a new key is appended
DictSet(d, k, v) ==
    IF \E i \in 1..Len(d) : d[i][1] = k
    THEN [i \in 1..Len(d) |-> IF d[i][1] = k THEN <<k, v>> ELSE d[i]]
    ELSE Append(d, <<k, v>>)

RECURSIVE DictUpdate(_, _)
DictUpdate(d, p) ==
    IF p = <<>> THEN d
    ELSE DictUpdate(DictSet(d, Head(p)[1], Head(p)[2]), Tail(p))

\* a key function that toggles the case (k.swapcase())
UpperToggling(k) ==
    CASE k \in {"email", "Email"} -> "EMAIL"
      [] k = "EMAIL"              -> "email"
      [] k \in {"vin", "Vin"}     -> "VIN"
      [] k = "VIN"                -> "vin"
      [] k \in {"color", "Color"} -> "COLOR"
      [] k = "COLOR"              -> "color"
      [] OTHER -> k

\* k.upper(); UPPER_MAP maps every known lowercase key to its uppercase form
Upper(k) ==
    CASE k \in {"policy_number", "Policy_Number"} -> "POLICY_NUMBER"
      [] k \in {"customer_name"}  -> "CUSTOMER_NAME"
      [] k \in {"email", "Email"} -> "EMAIL"
      [] k \in {"vehicle_make"}   -> "VEHICLE_MAKE"
      [] k \in {"vin", "Vin"}     -> "VIN"
      [] k \in {"color", "Color"} -> "COLOR"
      [] OTHER -> k

RECURSIVE NormInto(_, _)
NormInto(out, d) ==
    IF d = <<>> THEN out
    ELSE NormInto(DictSet(out, Upper(Head(d)[1]), Head(d)[2]), Tail(d))

norm_entities_upper(d) == NormInto(<<>>, d)

\* ------------------------------------------------------------------- text
\* Keyword classes of the message tokens (computed from the source texts
\* with _norm and the token sets of rule_engine.py lines 35-41).
EXPIRED_TOKENS == {"u_vencio", "m405", "m416"}
PRICE_TOKENS   == {"u_precio", "m459", "m473", "m521", "m637", "fb_u2"}
PAY_TOKENS     == {"u_pago", "m620"}
CLAIM_TOKENS   == {"u_reportar", "u_vencio", "m295", "m323", "m334", "m369",
                   "m405", "m416", "m493", "m521", "m536", "m637", "m646",
                   "m670", "m694", "fb_g1", "fb_u0"}
CLAIM_KEYS     == {"u_reportar", "m646"}
SI_WORDS       == {"u_si", "m295", "m334", "m345"}
TECH_WORDS     == {"m521", "m646"}

HasTok(text, class) == \E i \in 1..Len(text) : text[i] \in class

\* number of whitespace-separated words a token stands for (capped at 5)
NWords(tok) ==
    CASE tok \in {"User:", "Agent:", "|", "u_si"} -> 1
      [] tok \in {"de_nada"}        -> 2
      [] tok \in {"no_se_preocupe", "u_plain", "u_vencio", "u_precio",
                  "u_pago", "u_reportar"} -> 3
      [] tok \in {"con_gusto"}      -> 4
      [] OTHER -> 5

\* any(word in ["si","sí","yes"] for word in summary.lower().split()[-5:])
RECURSIVE LastWordsYes(_, _, _)
LastWordsYes(text, i, budget) ==
    IF i = 0 \/ budget <= 0 THEN FALSE
    ELSE IF text[i] = "u_si" THEN TRUE
    ELSE LastWordsYes(text, i - 1, budget - NWords(text[i]))

\* text[-n:]
LastN(text, n) ==
    IF Len(text) <= n THEN text
    ELSE SubSeq(text, Len(text) - n + 1, Len(text))


\* ------------------------------------------------------------ state record
Absent == "<absent>"

\* default_state of get_session_state; the keys it does not hold are given
\* the value every reader of the source substitutes for a missing key
\* (False for a flag, "" for a string, <<>> for a text).
DefaultState ==
    [ current_intent            |-> NoVal,
      entities                  |-> <<>>,
      policy_number_provided    |-> FALSE,
      vehicle_details_provided  |-> FALSE,
      contact_info_provided     |-> FALSE,
      quote_provided            |-> FALSE,
      renovation_lead_notified  |-> FALSE,
      pricing_provided          |-> FALSE,
      pricing_confirmed         |-> FALSE,
      conversation_turn         |-> 0,
      status                    |-> "new_session",
      conversation_summary      |-> <<>>,
      vehicle_info_acknowledged |-> FALSE,
      plan_selected             |-> FALSE,
      conversation_ended        |-> FALSE,
      lead_generation_complete  |-> FALSE,
      expiry_captured           |-> FALSE,
      services_up_to_date       |-> FALSE,
      context                   |-> "",
      last_action_type          |-> "",
      last_action_turn          |-> 0,
      last_prompt               |-> <<>>,
      waiting_for               |-> "",
      expiry_days               |-> Absent,
      expiry_date               |-> Absent ]

\* ------------------------------------------------------------ rule engine
\* rule_engine._coerce_bool
_coerce_bool(v) ==
    CASE v.py = "bool" -> v.b
      [] v.py = "int"  -> v.n # 0
      [] v.py = "str"  ->
            Lower(Strip(v.s)) \in {<<"t", "r", "u", "e">>, <<"1">>, <<"y", "e", "s">>,
                                   <<"s", "i">>, <<"s", "í">>}
      [] OTHER -> PyTruth(v)

Act(type, msg, info) ==
    [ action_type           |-> type,
      message_to_customer   |-> msg,
      information_requested |-> info,
      notification_data     |-> NoVal ]

NoAction == Act("<None>", <<>>, NoVal)

\* state["nlp_flags"] is never written by decide: nlp_flags is always {}
NlpFlag(s, name) == FALSE

\* an expiry check that is always satisfied
_has_expiry_infoAlways(entities, s) == TRUE

_has_expiry_info(entities, s) ==
    \/ Truthy(Get(entities, "EXPIRY_DAYS"))
    \/ Truthy(Get(entities, "EXPIRY_DATE"))
    \/ s.expiry_captured

_services_ok(s) ==
    \/ s.services_up_to_date
    \/ NlpFlag(s, "services_ok")
    \/ /\ s.waiting_for = "services_status"
       /\ LastWordsYes(s.conversation_summary, Len(s.conversation_summary), 5)

_get_conversation_phase(s) ==
    IF s.conversation_ended THEN "ended"
    ELSE IF s.lead_generation_complete THEN "completed"
    ELSE IF s.context = "expired_policy_flow" THEN
        IF ~_has_expiry_info(<<>>, s) \/ ~_services_ok(s)
        THEN "expired_verification" ELSE "expired_data_collection"
    ELSE IF s.context = "expired_data_collection" THEN "expired_data_collection"
    ELSE IF s.context = "pricing_flow" THEN
        IF s.pricing_confirmed THEN "post_pricing_collection"
        ELSE "pricing_discussion"
    ELSE IF s.last_action_type \in
              {"ask_for_policy_number", "ask_for_vehicle_info", "request_contact_info"}
    THEN "data_collection"
    ELSE "initial"

_in_data_collection(s) ==
    _get_conversation_phase(s) \in
        {"data_collection", "expired_data_collection", "post_pricing_collection"}

_expired_flag(summary, s) ==
    NlpFlag(s, "expired") \/ HasTok(summary, EXPIRED_TOKENS)

HasContact(entities) ==
    \/ Truthy(Get(entities, "CUSTOMER_NAME"))
    \/ Truthy(Get(entities, "EMAIL"))
    \/ Truthy(Get(entities, "PHONE_NUMBER"))

_ready_to_notify(entities, s) ==
    /\ Truthy(Get(entities, "POLICY_NUMBER"))
    /\ HasContact(entities)
    /\ ~s.renovation_lead_notified

_get_missing_info(entities) ==
    IF ~Truthy(Get(entities, "POLICY_NUMBER")) THEN "policy_number"
    ELSE IF ~(Truthy(Get(entities, "VEHICLE_MAKE")) /\ Truthy(Get(entities, "VEHICLE_MODEL")))
    THEN "vehicle_info"
    ELSE IF ~HasContact(entities) THEN "contact_info"
    ELSE "complete"

\* entities.get(k, default)
GetOr(entities, k, default) ==
    IF k \in Keys(entities) THEN Get(entities, k) ELSE default

_build_lead_notification(s, entities) ==
    [ Act("notify_human_renovation_lead", <<"m140">>, NoVal) EXCEPT
        !.notification_data =
            [ customer_name  |-> GetOr(entities, "CUSTOMER_NAME", "Usuario"),
              policy_number  |-> GetOr(entities, "POLICY_NUMBER", "No Proporcionada"),
              email          |-> GetOr(entities, "EMAIL", "No Proporcionado"),
              phone_whatsapp |-> GetOr(entities, "PHONE_NUMBER", "No Proporcionado"),
              conversation_summary |-> s.conversation_summary,
              lead_quality   |-> "high" ] ]

\* returns the action together with the state it leaves
_update_state_and_return(s, action, new_context) ==
    LET s1 == [s EXCEPT !.last_action_type = action.action_type,
                        !.last_action_turn = s.conversation_turn]
        s2 == IF new_context # "" THEN [s1 EXCEPT !.context = new_context] ELSE s1
        s3 == IF Truthy(action.information_requested)
              THEN [s2 EXCEPT !.last_prompt = action.message_to_customer,
                              !.waiting_for = action.information_requested]
              ELSE s2
    IN  [action |-> action, state |-> s3]

ReturnNone(s) == [action |-> NoAction, state |-> s]

_classify_intent_with_context(current_intent, entities, s, summary) ==
    LET waiting_for == s.waiting_for
        phase == _get_conversation_phase(s)
        missing == _get_missing_info(entities)
        vehicle == Truthy(Get(entities, "VEHICLE_MAKE")) \/ Truthy(Get(entities, "VEHICLE_MODEL"))
        byWaiting ==
            IF /\ Truthy(waiting_for)
               /\ current_intent \in {"Unknown", "ProvideVehicleInfo",
                                      "ProvideContactInfo", "QueryPolicyDetails"}
            THEN IF waiting_for = "policy_number" /\ Truthy(Get(entities, "POLICY_NUMBER"))
                 THEN "QueryPolicyDetails"
                 ELSE IF waiting_for = "vehicle_details" /\ vehicle THEN "ProvideVehicleInfo"
                 ELSE IF waiting_for = "contact_info" /\ HasContact(entities)
                 THEN "ProvideContactInfo"
                 ELSE IF waiting_for \in {"expiry_date", "services_status"}
                 THEN "ExpiredPolicy"
                 ELSE NoVal
            ELSE NoVal
        byPricing ==
            IF phase = "pricing_discussion"
            THEN IF current_intent = "Unknown" /\ Truthy(Get(entities, "PLAN_SELECTION"))
                 THEN "ConfirmRenovation"
                 ELSE IF current_intent \in {"GetQuote", "RenovatePolicy"}
                 THEN "ConfirmRenovation"
                 ELSE NoVal
            ELSE NoVal
        byCollection ==
            IF phase = "data_collection" /\ current_intent = "Unknown"
            THEN IF missing = "policy_number" /\ Truthy(Get(entities, "POLICY_NUMBER"))
                 THEN "QueryPolicyDetails"
                 ELSE IF missing = "vehicle_info" /\ vehicle THEN "ProvideVehicleInfo"
                 ELSE IF missing = "contact_info" /\ HasContact(entities)
                 THEN "ProvideContactInfo"
                 ELSE NoVal
            ELSE NoVal
    IN  IF byWaiting # NoVal THEN byWaiting
        ELSE IF byPricing # NoVal THEN byPricing
        ELSE IF byCollection # NoVal THEN byCollection
        ELSE IF current_intent \in {"Unknown", "QueryPolicyDetails"}
                /\ _expired_flag(summary, s)
        THEN "ExpiredPolicy"
        ELSE current_intent

\* state.get("last_prompt") or "Para continuar, ¿cuál es su número de póliza?"
PromptOrDefault(s) == IF s.last_prompt # <<>> THEN s.last_prompt ELSE <<"m_default_prompt">>

\* state.get("last_action_type") or "ask_for_policy_number"
LastActionOrDefault(s) ==
    IF Truthy(s.last_action_type) THEN s.last_action_type ELSE "ask_for_policy_number"

\* lines 657-705: unknown-intent heuristics, then no rule matched
UnknownRules(s, ri) ==
    LET e == s.entities
        missing == _get_missing_info(e)
        clarify == _update_state_and_return(s, Act("clarify_intent", <<"m694">>, NoVal), "")
    IN  IF ri # "Unknown" THEN ReturnNone(s)
        ELSE IF Truthy(Get(e, "POLICY_NUMBER")) /\ ~Truthy(Get(e, "VEHICLE_MAKE"))
        THEN _update_state_and_return(s,
                 Act("ask_for_vehicle_info", <<"m662">>, "vehicle_details"), "data_collection")
        ELSE IF (Truthy(Get(e, "VEHICLE_MAKE")) \/ Truthy(Get(e, "VEHICLE_MODEL")))
                /\ ~Truthy(Get(e, "POLICY_NUMBER"))
        THEN _update_state_and_return(s,
                 Act("ask_for_policy_number", <<"m670">>, "policy_number"), "data_collection")
        ELSE IF HasContact(e) /\ missing = "policy_number"
        THEN _update_state_and_return(s,
                 Act("ask_for_policy_number", <<"m681">>, "policy_number"), "data_collection")
        ELSE IF HasContact(e) /\ missing = "vehicle_info"
        THEN _update_state_and_return(s,
                 Act("ask_for_vehicle_info", <<"m687">>, "vehicle_details"), "data_collection")
        ELSE clarify

\* lines 615-655: FAQ responders
FaqRules(s, ri, phase) ==
    LET summary == s.conversation_summary
        wants_pay == HasTok(summary, PAY_TOKENS)
        wants_price == ri = "GetQuote" \/ HasTok(summary, PRICE_TOKENS)
        wants_claim == HasTok(summary, CLAIM_TOKENS)
    IN  IF wants_pay /\ ~_in_data_collection(s)
        THEN _update_state_and_return(s, Act("provide_payment_info", <<"m620">>, NoVal), "")
        ELSE IF /\ wants_price
                /\ ~s.pricing_provided
                /\ ~s.pricing_confirmed
                /\ ~_in_data_collection(s)
                /\ phase # "pricing_discussion"
        THEN _update_state_and_return([s EXCEPT !.pricing_provided = TRUE],
                 Act("provide_pricing_info", <<"m637">>, NoVal), "pricing_flow")
        ELSE IF (ri = "QueryPolicyDetails" /\ wants_claim) \/ HasTok(summary, CLAIM_KEYS)
        THEN _update_state_and_return(s, Act("provide_claims_info", <<"m646">>, NoVal), "")
        ELSE UnknownRules(s, ri)

\* lines 589-613: confirmation handler
ConfirmRules(s, ri, phase) ==
    LET missing == _get_missing_info(s.entities)
    IN  IF ri = "ConfirmRenovation"
           /\ phase \notin {"pricing_discussion", "post_pricing_collection"}
           /\ missing # "complete"
        THEN IF missing = "policy_number"
             THEN _update_state_and_return(s,
                      Act("ask_for_policy_number", <<"m594">>, "policy_number"), "data_collection")
             ELSE IF missing = "vehicle_info"
             THEN _update_state_and_return(s,
                      Act("ask_for_vehicle_info", <<"m601">>, "vehicle_details"), "data_collection")
             ELSE _update_state_and_return(s,
                      Act("request_contact_info", <<"m608">>, "contact_info"), "data_collection")
        ELSE FaqRules(s, ri, phase)

\* lines 582-587
ContactRules(s, ri, phase) ==
    IF ri = "ProvideContactInfo" /\ _ready_to_notify(s.entities, s)
    THEN LET s1 == [s EXCEPT !.renovation_lead_notified = TRUE,
                             !.lead_generation_complete = TRUE]
         IN  _update_state_and_return(s1, _build_lead_notification(s1, s1.entities), "completed")
    ELSE ConfirmRules(s, ri, phase)

\* lines 567-580
VehicleRules(s, ri, phase) ==
    LET e == s.entities
    IN  IF /\ ri = "ProvideVehicleInfo"
           /\ Truthy(Get(e, "VEHICLE_MAKE")) \/ Truthy(Get(e, "VEHICLE_MODEL"))
           /\ ~s.vehicle_info_acknowledged
        THEN LET s1 == [s EXCEPT !.vehicle_info_acknowledged = TRUE]
             IN  IF _get_missing_info(e) = "contact_info"
                 THEN _update_state_and_return(s1,
                          Act("request_contact_info", <<"m575">>, "customer_name"),
                          "data_collection")
                 ELSE ContactRules(s1, ri, phase)
        ELSE ContactRules(s, ri, phase)

\* lines 530-565: standard collection sequence
CollectionRules(s, ri, phase) ==
    LET e == s.entities
        missing == _get_missing_info(e)
    IN  IF ri = "RenovatePolicy" /\ missing = "policy_number"
        THEN _update_state_and_return(s,
                 Act("ask_for_policy_number", <<"m536">>, "policy_number"), "data_collection")
        ELSE IF ri = "RenovatePolicy" /\ missing = "vehicle_info"
        THEN _update_state_and_return(s,
                 Act("ask_for_vehicle_info", <<"m543">>, "vehicle_details"), "data_collection")
        ELSE IF ri = "RenovatePolicy" /\ missing = "contact_info"
        THEN _update_state_and_return(s,
                 Act("request_contact_info", <<"m549">>, "contact_info"), "data_collection")
        ELSE IF /\ ri = "QueryPolicyDetails"
                /\ Truthy(Get(e, "POLICY_NUMBER"))
                /\ missing = "vehicle_info"
        THEN _update_state_and_return(s,
                 Act("ask_for_vehicle_info", <<"m560">>, "vehicle_details"), "data_collection")
        ELSE VehicleRules(s, ri, phase)

\* lines 482-528: clarification handlers
ClarificationRules(s, ri, phase) ==
    IF ri = "Confusion"
    THEN IF _in_data_collection(s)
         THEN _update_state_and_return(s,
                  Act(LastActionOrDefault(s), <<"no_se_preocupe">> \o PromptOrDefault(s), NoVal), "")
         ELSE _update_state_and_return(s, Act("explain", <<"m493">>, NoVal), "")
    ELSE IF ri = "AskForClarification"
    THEN IF phase = "pricing_discussion"
         THEN _update_state_and_return(s, Act("clarify_pricing_options", <<"m504">>, NoVal), "")
         ELSE IF _in_data_collection(s)
         THEN _update_state_and_return(s,
                  Act(LastActionOrDefault(s), <<"con_gusto">> \o PromptOrDefault(s), NoVal), "")
         ELSE _update_state_and_return(s, Act("explain", <<"m521">>, NoVal), "")
    ELSE CollectionRules(s, ri, phase)

\* lines 452-480: pricing flow
PricingRules(s, ri, phase) ==
    IF /\ phase = "pricing_discussion"
       /\ Truthy(Get(s.entities, "PLAN_SELECTION"))
       /\ ~s.plan_selected
    THEN _update_state_and_return([s EXCEPT !.plan_selected = TRUE],
             Act("request_contact_info", <<"m459">>, "contact_info"), "post_pricing_collection")
    ELSE IF /\ phase = "pricing_discussion"
            /\ ri = "ConfirmRenovation"
            /\ ~s.pricing_confirmed
    THEN _update_state_and_return([s EXCEPT !.pricing_confirmed = TRUE],
             Act("request_contact_info", <<"m473">>, "contact_info"), "post_pricing_collection")
    ELSE ClarificationRules(s, ri, phase)

\* lines 379-450: expired-policy flow
ExpiredRules(s, ri, phase) ==
    LET e == s.entities
        summary == s.conversation_summary
        taken == \/ ri = "ExpiredPolicy"
                 \/ _expired_flag(summary, s)
                 \/ phase \in {"expired_verification", "expired_data_collection"}
        s1 == IF ~Truthy(s.context) THEN [s EXCEPT !.context = "expired_policy_flow"] ELSE s
        s2 == IF NlpFlag(s1, "services_ok")
              THEN [s1 EXCEPT !.services_up_to_date = TRUE] ELSE s1
        s3 == IF /\ s2.waiting_for = "services_status"
                 /\ ri = "ConfirmRenovation" \/ HasTok(summary, SI_WORDS)
              THEN [s2 EXCEPT !.services_up_to_date = TRUE, !.waiting_for = ""]
              ELSE s2
        s4 == IF Get(e, "EXPIRY_DAYS") # NoVal \/ Truthy(Get(e, "EXPIRY_DATE"))
              THEN [s3 EXCEPT !.expiry_captured = TRUE,
                              !.expiry_days = Get(e, "EXPIRY_DAYS"),
                              !.expiry_date = Get(e, "EXPIRY_DATE"),
                              !.waiting_for = IF @ = "expiry_date" THEN "" ELSE @]
              ELSE s3
        s5 == [s4 EXCEPT !.context = "expired_data_collection"]
        missing == _get_missing_info(e)
    IN  IF ~taken THEN PricingRules(s, ri, phase)
        ELSE IF ~_has_expiry_info(e, s4) /\ s4.waiting_for # "services_status"
        THEN _update_state_and_return(s4,
                 Act("ask_expiry_date", <<"m405">>, "expiry_date"), "expired_policy_flow")
        ELSE IF ~_services_ok(s4) /\ s4.waiting_for # "expiry_date"
        THEN _update_state_and_return(s4,
                 Act("ask_services_status", <<"m416">>, "services_status"), "expired_policy_flow")
        ELSE IF _has_expiry_info(e, s4) /\ _services_ok(s4)
        THEN IF missing = "policy_number"
             THEN _update_state_and_return(s5,
                      Act("ask_for_policy_number", <<"m431">>, "policy_number"),
                      "expired_data_collection")
             ELSE IF missing = "vehicle_info"
             THEN _update_state_and_return(s5,
                      Act("ask_for_vehicle_info", <<"m440">>, "vehicle_details"),
                      "expired_data_collection")
             ELSE IF missing = "contact_info"
             THEN _update_state_and_return(s5,
                      Act("request_contact_info", <<"m446">>, "contact_info"),
                      "expired_data_collection")
             ELSE PricingRules(s5, ri, phase)
        ELSE PricingRules(s4, ri, phase)

\* lines 354-377: reset of the reset_keys that are in the state
GreetingReset(s) ==
    [s EXCEPT !.renovation_lead_notified  = FALSE,
              !.lead_generation_complete  = FALSE,
              !.vehicle_info_acknowledged = FALSE,
              !.pricing_provided          = FALSE,
              !.pricing_confirmed         = FALSE,
              !.plan_selected             = FALSE,
              !.last_action_type          = "",
              !.last_prompt               = <<>>,
              !.waiting_for               = "",
              !.services_up_to_date       = FALSE,
              !.expiry_captured           = FALSE,
              !.expiry_days               = IF @ = Absent THEN Absent ELSE "",
              !.expiry_date               = IF @ = Absent THEN Absent ELSE ""]

\* the meta-intents where Disagreement and CancelRenovation answer without
\* setting conversation_ended
MetaRulesNoEnd(s, ri, phase) ==
    LET e == s.entities
        ended == [s EXCEPT !.conversation_ended = TRUE]
    IN  IF ri = "Bye"
        THEN IF Truthy(Get(e, "POLICY_NUMBER")) \/ Truthy(Get(e, "CUSTOMER_NAME"))
             THEN _update_state_and_return(ended,
                      Act("end_conversation_with_followup", <<"m285">>, NoVal), "ended")
             ELSE _update_state_and_return(ended,
                      Act("end_conversation", <<"m295">>, NoVal), "ended")
        ELSE IF ri = "ThankYou"
        THEN IF phase = "completed"
             THEN _update_state_and_return(ended,
                      Act("end_conversation_after_thanks", <<"m307">>, NoVal), "ended")
             ELSE IF _in_data_collection(s)
             THEN _update_state_and_return(s,
                      Act(LastActionOrDefault(s), <<"de_nada">> \o PromptOrDefault(s), NoVal), "")
             ELSE _update_state_and_return(s, Act("acknowledge_thanks", <<"m323">>, NoVal), "")
        ELSE IF ri = "Disagreement"
        THEN _update_state_and_return(s, Act("end_conversation", <<"m334">>, NoVal), "ended")
        ELSE IF ri = "CancelRenovation"
        THEN _update_state_and_return(s, Act("cancel_process", <<"m345">>, NoVal), "ended")
        ELSE IF ri = "Greeting"
        THEN _update_state_and_return(GreetingReset(s),
                 Act("greet_and_offer_service", <<"m369">>, NoVal), "initial")
        ELSE ExpiredRules(s, ri, phase)

\* lines 280-377: conversational meta-intents
MetaRules(s, ri, phase) ==
    LET e == s.entities
        ended == [s EXCEPT !.conversation_ended = TRUE]
    IN  IF ri = "Bye"
        THEN IF Truthy(Get(e, "POLICY_NUMBER")) \/ Truthy(Get(e, "CUSTOMER_NAME"))
             THEN _update_state_and_return(ended,
                      Act("end_conversation_with_followup", <<"m285">>, NoVal), "ended")
             ELSE _update_state_and_return(ended,
                      Act("end_conversation", <<"m295">>, NoVal), "ended")
        ELSE IF ri = "ThankYou"
        THEN IF phase = "completed"
             THEN _update_state_and_return(ended,
                      Act("end_conversation_after_thanks", <<"m307">>, NoVal), "ended")
             ELSE IF _in_data_collection(s)
             THEN _update_state_and_return(s,
                      Act(LastActionOrDefault(s), <<"de_nada">> \o PromptOrDefault(s), NoVal), "")
             ELSE _update_state_and_return(s, Act("acknowledge_thanks", <<"m323">>, NoVal), "")
        ELSE IF ri = "Disagreement"
        THEN _update_state_and_return(ended, Act("end_conversation", <<"m334">>, NoVal), "ended")
        ELSE IF ri = "CancelRenovation"
        THEN _update_state_and_return(ended, Act("cancel_process", <<"m345">>, NoVal), "ended")
        ELSE IF ri = "Greeting"
        THEN _update_state_and_return(GreetingReset(s),
                 Act("greet_and_offer_service", <<"m369">>, NoVal), "initial")
        ELSE ExpiredRules(s, ri, phase)

\* the lead-ready rule without its latch: the flags are not set
NotifyRuleNoLatch(s, ri, phase) ==
    IF _ready_to_notify(s.entities, s) /\ ~s.renovation_lead_notified
    THEN _update_state_and_return(s, _build_lead_notification(s, s.entities), "completed")
    ELSE MetaRules(s, ri, phase)

\* lines 273-278: the lead-ready rule
NotifyRule(s, ri, phase) ==
    IF _ready_to_notify(s.entities, s) /\ ~s.renovation_lead_notified
    THEN LET s1 == [s EXCEPT !.renovation_lead_notified = TRUE,
                             !.lead_generation_complete = TRUE]
         IN  _update_state_and_return(s1, _build_lead_notification(s1, s1.entities), "completed")
    ELSE MetaRules(s, ri, phase)

\* the terminal short-circuit followed by the meta-intents, the lead-ready
\* rule only after them
TerminalRuleMetaFirst(s, ri, phase) ==
    IF phase = "ended" THEN ReturnNone(s)
    ELSE IF phase = "completed"
    THEN IF ri \in {"ThankYou", "Bye"}
         THEN _update_state_and_return(s,
                  Act("end_conversation_after_completion", <<"m267">>, NoVal), "")
         ELSE ReturnNone(s)
    ELSE IF ri \in {"Bye", "ThankYou", "Disagreement", "CancelRenovation", "Greeting"}
    THEN MetaRules(s, ri, phase)
    ELSE NotifyRule(s, ri, phase)

\* the terminal short-circuit with a closing action for thanks/bye in phase
\* ended as well
TerminalRuleCourtesy(s, ri, phase) ==
    IF phase \in {"ended", "completed"}
    THEN IF ri \in {"ThankYou", "Bye"}
         THEN _update_state_and_return(s,
                  Act("end_conversation_after_completion", <<"m267">>, NoVal), "")
         ELSE ReturnNone(s)
    ELSE NotifyRule(s, ri, phase)

\* the terminal short-circuit for phase ended only: a completed session goes
\* on to the rules
TerminalRuleEndedOnly(s, ri, phase) ==
    IF phase = "ended" THEN ReturnNone(s)
    ELSE NotifyRule(s, ri, phase)

\* lines 260-271: terminal short-circuit
TerminalRule(s, ri, phase) ==
    IF phase = "ended" THEN ReturnNone(s)
    ELSE IF phase = "completed"
    THEN IF ri \in {"ThankYou", "Bye"}
         THEN _update_state_and_return(s,
                  Act("end_conversation_after_completion", <<"m267">>, NoVal), "")
         ELSE ReturnNone(s)
    ELSE NotifyRule(s, ri, phase)

\* evaluate_rules of a rule engine that remembers the intent of its previous
\* call and answers None when the same intent comes again
evaluate_rulesRemembering(s0) ==
    LET s == [s0 EXCEPT !.conversation_turn = @ + 1]
        current_intent == IF Truthy(s.current_intent) THEN s.current_intent ELSE "Unknown"
        phase == _get_conversation_phase(s)
        ri == _classify_intent_with_context(current_intent, s.entities, s,
                                            s.conversation_summary)
    IN  IF intentSeen = s0.current_intent THEN ReturnNone(s)
        ELSE TerminalRule(s, ri, phase)

\* RuleEngine.evaluate_rules: [action, state]; the flags of the state are
\* booleans already, so the normalisation of lines 235-239 leaves them as is
evaluate_rules(s0) ==
    LET s == [s0 EXCEPT !.conversation_turn = @ + 1]
        current_intent == IF Truthy(s.current_intent) THEN s.current_intent ELSE "Unknown"
        phase == _get_conversation_phase(s)
        ri == _classify_intent_with_context(current_intent, s.entities, s,
                                            s.conversation_summary)
    IN  TerminalRule(s, ri, phase)

\* ------------------------------------------------------------ policy module
\* PolicyModule.predict_action: the category, then random.choice among its texts
FallbackMessages(s) ==
    IF s.current_intent \in {"Unknown", NoVal, ""}
    THEN {"fb_u0", "fb_u1", "fb_u2"}
    ELSE IF HasTok(s.conversation_summary, TECH_WORDS)
    THEN {"fb_t0", "fb_t1"}
    ELSE {"fb_g0", "fb_g1", "fb_g2"}

\* a policy module that has no answer
predict_actionNone(tok) == NoAction

predict_action(tok) == Act("fallback_response", <<tok>>, NoVal)

\* ------------------------------------------------------------ session store
\* memory_manager.coerce_bool
coerce_bool(v) ==
    CASE v.py = "bool" -> v.b
      [] v.py = "int"  -> v.n # 0
      [] v.py = "str"  ->
            Lower(Strip(v.s)) \in {<<"t", "r", "u", "e">>, <<"1">>, <<"y", "e", "s">>}
      [] OTHER -> PyTruth(v)

LoadedFromCache(data) ==
    [data EXCEPT !.entities = norm_entities_upper(data.entities),
                 !.policy_number_provided   = coerce_bool(PyBool(@)),
                 !.vehicle_details_provided = coerce_bool(PyBool(@)),
                 !.contact_info_provided    = coerce_bool(PyBool(@)),
                 !.quote_provided           = coerce_bool(PyBool(@)),
                 !.renovation_lead_notified = coerce_bool(PyBool(@)),
                 !.pricing_provided         = coerce_bool(PyBool(@)),
                 !.pricing_confirmed        = coerce_bool(PyBool(@))]

LoadedFromFallback(data) ==
    [data EXCEPT !.entities = norm_entities_upper(data.entities)]

\* get_session_state without the default: nothing is returned when neither
\* the cache nor the fallback map holds the session
get_session_stateNoDefault(cacheData, mem) ==
    IF cacheData # NoSession THEN LoadedFromCache(cacheData)
    ELSE IF mem # NoSession THEN LoadedFromFallback(mem)
    ELSE NoSession

\* get_session_state: cacheData is what the cache read returned (NoSession
\* for a miss or a read error), mem the entry of the process-local map
get_session_state(cacheData, mem) ==
    IF cacheData # NoSession THEN LoadedFromCache(cacheData)
    ELSE IF mem # NoSession THEN LoadedFromFallback(mem)
    ELSE DefaultState

\* decide, lines 139-179: merge of the percept into the loaded state
MergePercept(s, percept) ==
    LET s1 == [s EXCEPT !.current_intent = percept.intent]
        s2 == IF percept.entities # <<>>
              THEN [s1 EXCEPT !.entities = DictUpdate(@, percept.entities)]
              ELSE s1
        e  == s2.entities
    IN  [s2 EXCEPT
           !.policy_number_provided =
               IF Truthy(Get(e, "policy_number")) THEN TRUE ELSE @,
           !.vehicle_details_provided =
               IF /\ Truthy(Get(e, "vehicle_make"))
                  /\ Truthy(Get(e, "vehicle_model"))
                  /\ Truthy(Get(e, "vehicle_year"))
               THEN TRUE ELSE @,
           !.contact_info_provided =
               IF Truthy(Get(e, "email")) \/ Truthy(Get(e, "phone_number"))
               THEN TRUE ELSE @]

\* the truncation keeping the head of the text, [:SUMMARY_MAX_CHARS]
SummaryAfterKeepFirst(summary, user_message, agent_action) ==
    LET withUser == IF user_message # <<>>
                    THEN summary \o <<"User:">> \o user_message \o <<"|">>
                    ELSE summary
        withAgent == IF agent_action # NoAction /\ agent_action.message_to_customer # <<>>
                     THEN withUser \o <<"Agent:">> \o agent_action.message_to_customer \o <<"|">>
                     ELSE withUser
    IN  IF Len(withAgent) > SUMMARY_MAX_CHARS
        THEN SubSeq(withAgent, 1, SUMMARY_MAX_CHARS)
        ELSE withAgent

\* update_session_state, lines 526-586: the state that is written
SummaryAfter(summary, user_message, agent_action) ==
    LET withUser == IF user_message # <<>>
                    THEN summary \o <<"User:">> \o user_message \o <<"|">>
                    ELSE summary
        withAgent == IF agent_action # NoAction /\ agent_action.message_to_customer # <<>>
                     THEN withUser \o <<"Agent:">> \o agent_action.message_to_customer \o <<"|">>
                     ELSE withUser
    IN  IF Len(withAgent) > SUMMARY_MAX_CHARS
        THEN LastN(withAgent, SUMMARY_MAX_CHARS)
        ELSE withAgent

StateToSave(s, user_message, agent_action) ==
    LET ents == norm_entities_upper(s.entities)
    IN  [s EXCEPT
           !.entities = ents,
           !.contact_info_provided =
               IF Truthy(Get(ents, "EMAIL")) \/ Truthy(Get(ents, "PHONE_NUMBER"))
               THEN TRUE ELSE coerce_bool(PyBool(@)),
           !.policy_number_provided =
               IF Truthy(Get(ents, "POLICY_NUMBER")) THEN TRUE ELSE coerce_bool(PyBool(@)),
           !.vehicle_details_provided =
               IF /\ Truthy(Get(ents, "VEHICLE_MAKE"))
                  /\ Truthy(Get(ents, "VEHICLE_MODEL"))
                  /\ Truthy(Get(ents, "VEHICLE_YEAR"))
               THEN TRUE ELSE coerce_bool(PyBool(@)),
           !.quote_provided           = coerce_bool(PyBool(@)),
           !.renovation_lead_notified = coerce_bool(PyBool(@)),
           !.pricing_provided         = coerce_bool(PyBool(@)),
           !.pricing_confirmed        = coerce_bool(PyBool(@)),
           !.status = IF @ = "new_session" THEN "active_session" ELSE @,
           !.conversation_summary = SummaryAfter(@, user_message, agent_action)]

\* ------------------------------------------------------------------ inputs
Intents ==
    {"Greeting", "Bye", "ThankYou", "Disagreement", "CancelRenovation",
     "RenovatePolicy", "QueryPolicyDetails", "ProvideVehicleInfo",
     "ProvideContactInfo", "ConfirmRenovation", "GetQuote", "Confusion",
     "AskForClarification", "ExpiredPolicy", "RequestSupport", "Unknown"}

\* entity dicts a percept may carry (perception may emit any key casing)
PolicyUpper == << <<"POLICY_NUMBER", "ABC123456">> >>
PolicyLower == << <<"policy_number", "XYZ987654">> >>
VehicleFull == << <<"VEHICLE_MAKE", "Honda">>, <<"VEHICLE_MODEL", "Civic">>,
                  <<"VEHICLE_YEAR", "2020">> >>
VehicleNoYear == << <<"VEHICLE_MAKE", "Honda">>, <<"VEHICLE_MODEL", "Civic">> >>
NameUpper   == << <<"CUSTOMER_NAME", "Juan">> >>
EmailLower  == << <<"email", "juan@example.com">> >>
PlanChoice  == << <<"PLAN_SELECTION", "12">> >>
ExpiredToday == << <<"EXPIRY_DAYS", IntZero>> >>

PerceptEntities ==
    { PolicyUpper, PolicyLower, VehicleFull, VehicleNoYear, NameUpper,
      EmailLower, PlanChoice, ExpiredToday }

KeywordMessages ==
    { <<"u_vencio">>, <<"u_precio">>, <<"u_pago">>, <<"u_reportar">>, <<"u_si">> }

Percept(i, e, m) == [intent |-> i, entities |-> e, message |-> m]

\* one turn's input: the user's message and what perception made of it.
\* Every intent comes without entities; a contact comes with the intents
\* that reach each group of rules; the other entity dicts and the keyword
\* messages come with the intents perception gives them.
Inputs ==
    {Percept(i, <<>>, <<"u_plain">>) : i \in Intents}
    \cup {Percept(i, NameUpper, <<"u_plain">>) :
            i \in {"ProvideContactInfo", "Unknown", "Bye", "Greeting", "Disagreement",
                   "ConfirmRenovation"}}
    \cup {Percept(i, PolicyUpper, <<"u_plain">>) :
            i \in {"QueryPolicyDetails", "RenovatePolicy", "ThankYou"}}
    \cup {Percept("QueryPolicyDetails", PolicyLower, <<"u_plain">>),
          Percept("ProvideContactInfo", EmailLower, <<"u_plain">>)}
    \cup {Percept("RenovatePolicy", VehicleFull, <<"u_plain">>),
          Percept("RenovatePolicy", VehicleNoYear, <<"u_plain">>),
          Percept("ProvideVehicleInfo", VehicleFull, <<"u_plain">>)}
    \cup {Percept("Unknown", PlanChoice, <<"u_plain">>),
          Percept("ExpiredPolicy", ExpiredToday, <<"u_plain">>)}
    \cup {Percept("Unknown", <<>>, m) : m \in KeywordMessages}

\* the inputs of the runs with cache failures: the lead-generation dialogue
DegradedInputs ==
    {Percept(i, <<>>, <<"u_plain">>) :
        i \in {"RenovatePolicy", "Greeting", "ThankYou", "Bye", "Unknown"}}
    \cup {Percept("QueryPolicyDetails", PolicyUpper, <<"u_plain">>),
          Percept("ProvideContactInfo", NameUpper, <<"u_plain">>),
          Percept("ProvideContactInfo", EmailLower, <<"u_plain">>),
          Percept("ProvideVehicleInfo", VehicleFull, <<"u_plain">>)}

\* the turns of the runs that watch the durable log
DurableInputs ==
    {Percept("RenovatePolicy", NameUpper, <<"u_plain">>),
     Percept("Bye", <<>>, <<"u_plain">>)}

\* user messages of several lengths: none, short, one that fills the summary
\* together with the agent's answer, and one longer than the whole bound
MessageLens == {0, 1, SUMMARY_MAX_CHARS - 3, SUMMARY_MAX_CHARS + 1}

LongMessage(n) == [i \in 1..n |-> "u_plain"]

LongInputs ==
    {Percept(i, <<>>, LongMessage(n)) :
        i \in {"RenovatePolicy", "Greeting", "Unknown", "GetQuote"}, n \in MessageLens}

\* ------------------------------------------------------------------- system
\* the second decide call and the second session
second == <<redisB, in_memoryB, user_id2, pc2, current_state2, message2,
            chosen_action2, aloneRedisB, aloneMemB, alone2>>

vars == <<redis, redis_ttl, in_memory, pc, current_state, message, rule_action,
          chosen_action, evalIn, phaseSeen, intentSeen, prevPhase, prevIntent,
          notifyCount, pricingCount, turns, last_saved, pg_conn,
          conversation_log, user_profiles, pg_failed, second, arg, result>>

\* MemoryManager.__init__: both stores empty; connected says whether
\* psycopg2.connect succeeded
Constructed(connected) ==
    /\ redis = NoSession
    /\ redis_ttl = 0
    /\ in_memory = NoSession
    /\ pc = "idle"
    /\ current_state = DefaultState
    /\ message = <<>>
    /\ rule_action = NoAction
    /\ chosen_action = NoAction
    /\ evalIn = DefaultState
    /\ phaseSeen = "none"
    /\ intentSeen = "none"
    /\ prevPhase = "none"
    /\ prevIntent = "none"
    /\ notifyCount = 0
    /\ pricingCount = 0
    /\ turns = 0
    /\ last_saved = NoSession
    /\ pg_conn = connected
    /\ conversation_log = <<>>
    /\ user_profiles = NoSession
    /\ pg_failed = FALSE
    /\ redisB = NoSession
    /\ in_memoryB = NoSession
    /\ user_id2 = NoVal
    /\ pc2 = "idle"
    /\ current_state2 = DefaultState
    /\ message2 = <<>>
    /\ chosen_action2 = NoAction
    /\ aloneRedisB = NoSession
    /\ aloneMemB = NoSession
    /\ alone2 = DefaultState

\* long-term persistence disabled (the connect failed)
Init == Constructed(FALSE) /\ arg = NoVal /\ result = NoVal

\* connected to PostgreSQL
InitDurable == Constructed(TRUE) /\ arg = NoVal /\ result = NoVal

\* decide, lines 109-179, cache read answered
LoadStep(cacheData, ttl, inputs) ==
    /\ pc = "idle"
    /\ turns < MaxTurns
    /\ \E p \in inputs :
          /\ current_state' = MergePercept(get_session_state(cacheData, in_memory), p)
          /\ message' = p.message
    /\ redis_ttl' = ttl
    /\ pc' = "loaded"
    /\ turns' = turns + 1
    /\ UNCHANGED <<redis, in_memory, rule_action, chosen_action, evalIn,
                   phaseSeen, intentSeen, prevPhase, prevIntent, notifyCount,
                   pricingCount, last_saved, pg_conn, conversation_log,
                   user_profiles, pg_failed, second, arg, result>>

\* r.expire(key, SESSION_TTL_SECONDS) after a hit
TtlAfterRead == IF redis # NoSession THEN SESSION_TTL_SECONDS ELSE redis_ttl

Load == LoadStep(redis, TtlAfterRead, Inputs)

LoadDegraded == LoadStep(redis, TtlAfterRead, DegradedInputs)

\* the cache read raises: get_session_state falls to the process-local map
LoadCacheError == LoadStep(NoSession, redis_ttl, DegradedInputs)

\* the read is a hit and r.expire raises: the exception is passed over and
\* the entry keeps the TTL it had
LoadExpireError ==
    /\ redis # NoSession
    /\ LoadStep(redis, redis_ttl, DegradedInputs)

\* decide, lines 198-221: rule engine, then the learned-policy fallback
Decide ==
    /\ pc = "loaded"
    /\ LET r == evaluate_rules(current_state)
       IN  /\ evalIn' = current_state
           /\ current_state' = r.state
           /\ rule_action' = r.action
           /\ IF r.action # NoAction
              THEN chosen_action' = r.action
              ELSE \E tok \in FallbackMessages(r.state) :
                      chosen_action' = predict_action(tok)
           /\ notifyCount' = IF r.action.action_type = "notify_human_renovation_lead"
                             THEN notifyCount + 1 ELSE notifyCount
           /\ pricingCount' = IF r.action.action_type = "provide_pricing_info"
                              THEN pricingCount + 1 ELSE pricingCount
    /\ phaseSeen' = _get_conversation_phase(current_state)
    /\ intentSeen' = current_state.current_intent
    /\ prevPhase' = phaseSeen
    /\ prevIntent' = intentSeen
    /\ pc' = "decided"
    /\ UNCHANGED <<redis, redis_ttl, in_memory, message, turns, last_saved,
                   pg_conn, conversation_log, user_profiles, pg_failed, second, arg, result>>

\* decide returns: its locals are gone
Return ==
    /\ pc' = "idle"
    /\ current_state' = DefaultState
    /\ message' = <<>>
    /\ rule_action' = NoAction
    /\ chosen_action' = NoAction
    /\ evalIn' = DefaultState
    /\ prevPhase' = "none"
    /\ prevIntent' = "none"
    /\ UNCHANGED <<phaseSeen, intentSeen, notifyCount, pricingCount, turns,
                   second, arg, result>>

\* one row of conversation_log; entities is the dict that json.dumps writes
\* into the JSONB column
LogRow(role, msg, s, action_type) ==
    [ role        |-> role,
      message     |-> msg,
      intent      |-> s.current_intent,
      entities    |-> s.entities,
      action_type |-> action_type ]

\* COALESCE(EXCLUDED.x, user_profiles.x)
Coalesce(new, old) == IF new # NoVal THEN new ELSE old

\* the three statements of the PostgreSQL block run in autocommit, so each
\* one that completed stays: done is the number of statements completed
\* before psycopg2.Error was raised (AllStatements: none was raised)
AllStatements == 3

ProfileAfter(profile, s, done) ==
    LET old == IF profile = NoSession
               THEN [customer_name |-> NoVal, email |-> NoVal,
                     phone_number |-> NoVal, vin |-> NoVal]
               ELSE profile
    IN  IF done >= 1
        THEN [ customer_name |-> Coalesce(Get(s.entities, "CUSTOMER_NAME"), old.customer_name),
               email         |-> Coalesce(Get(s.entities, "EMAIL"), old.email),
               phone_number  |-> Coalesce(Get(s.entities, "PHONE_NUMBER"), old.phone_number),
               vin           |-> Coalesce(Get(s.entities, "VIN"), old.vin) ]
        ELSE profile

\* the PostgreSQL block keeping only the rows of the latest turn
LogAfterLatestOnly(log, s, user_message, agent_action, done) ==
    (IF done >= 2 THEN <<LogRow("user", user_message, s, NoVal)>> ELSE <<>>)
    \o (IF done >= 3 /\ agent_action # NoAction
        THEN <<LogRow("agent", agent_action.message_to_customer, s,
                      agent_action.action_type)>>
        ELSE <<>>)

LogAfter(log, s, user_message, agent_action, done) ==
    log
    \o (IF done >= 2 THEN <<LogRow("user", user_message, s, NoVal)>> ELSE <<>>)
    \o (IF done >= 3 /\ agent_action # NoAction
        THEN <<LogRow("agent", agent_action.message_to_customer, s,
                      agent_action.action_type)>>
        ELSE <<>>)

\* update_session_state whose failed cache write is only reported: nothing
\* goes to the process-local map
SaveStepNoFallback(cacheOk, ttl, done, agent_action) ==
    /\ pc = "decided"
    /\ LET s == StateToSave(current_state, message, agent_action)
       IN  /\ IF cacheOk
              THEN /\ redis' = s
                   /\ redis_ttl' = ttl
              ELSE UNCHANGED <<redis, redis_ttl>>
           /\ UNCHANGED in_memory
           /\ last_saved' = s
           /\ IF pg_conn
              THEN /\ user_profiles' = ProfileAfter(user_profiles, s, done)
                   /\ conversation_log' =
                         LogAfter(conversation_log, s, message, agent_action, done)
              ELSE UNCHANGED <<conversation_log, user_profiles>>
           /\ pg_failed' = (pg_conn /\ done < AllStatements)
    /\ UNCHANGED pg_conn
    /\ Return

\* update_session_state: the cache write (or, when it raises, the write to
\* the process-local map), then the PostgreSQL block
SaveStep(cacheOk, ttl, done, agent_action) ==
    /\ pc = "decided"
    /\ LET s == StateToSave(current_state, message, agent_action)
       IN  /\ IF cacheOk
              THEN /\ redis' = s
                   /\ redis_ttl' = ttl
                   /\ UNCHANGED in_memory
              ELSE /\ in_memory' = s
                   /\ UNCHANGED <<redis, redis_ttl>>
           /\ last_saved' = s
           /\ IF pg_conn
              THEN /\ user_profiles' = ProfileAfter(user_profiles, s, done)
                   /\ conversation_log' =
                         LogAfter(conversation_log, s, message, agent_action, done)
              ELSE UNCHANGED <<conversation_log, user_profiles>>
           /\ pg_failed' = (pg_conn /\ done < AllStatements)
    /\ UNCHANGED pg_conn
    /\ Return

\* decide, lines 235-249: update_session_state, cache write succeeds
Save == SaveStep(TRUE, SESSION_TTL_SECONDS, AllStatements, chosen_action)

\* the cache write raises: the state goes to the process-local map
SaveCacheError == SaveStep(FALSE, redis_ttl, AllStatements, chosen_action)

\* the write succeeds and r.expire raises: the exception is passed over.
\* SET drops the expiry of the key it overwrites; whether JSON.SET does is
\* the cache module's choice, so an overwritten entry may keep its TTL
TtlAfterFailedExpire ==
    {NoExpiry} \cup (IF redis # NoSession THEN {redis_ttl} ELSE {})

SaveExpireError ==
    \E ttl \in TtlAfterFailedExpire :
        SaveStep(TRUE, ttl, AllStatements, chosen_action)

\* psycopg2.Error in the PostgreSQL block, after 0, 1 or 2 statements
SaveDurableError ==
    /\ pg_conn
    /\ \E done \in 0..(AllStatements - 1) :
          SaveStep(TRUE, SESSION_TTL_SECONDS, done, chosen_action)

\* the cache write raises and so does the PostgreSQL block
SaveBothError ==
    /\ pg_conn
    /\ \E done \in 0..(AllStatements - 1) :
          SaveStep(FALSE, redis_ttl, done, chosen_action)

\* update_session_state called with chosen_action=None (its default)
SaveWithoutAction ==
    SaveStep(TRUE, SESSION_TTL_SECONDS, AllStatements, NoAction)

\* time passes between two requests; the cache drops an entry whose TTL
\* has run out. The process-local map has no expiry.
ElapseSteps == {SESSION_TTL_SECONDS \div 2, SESSION_TTL_SECONDS}

Elapse ==
    /\ pc = "idle"
    /\ redis # NoSession
    /\ redis_ttl # NoExpiry
    /\ \E d \in ElapseSteps :
          IF d < redis_ttl
          THEN /\ redis_ttl' = redis_ttl - d
               /\ UNCHANGED redis
          ELSE /\ redis' = NoSession
               /\ redis_ttl' = 0
    /\ UNCHANGED <<in_memory, pc, current_state, message, rule_action,
                   chosen_action, evalIn, phaseSeen, intentSeen, prevPhase,
                   prevIntent, notifyCount, pricingCount, turns, last_saved,
                   pg_conn, conversation_log, user_profiles, pg_failed, second, arg, result>>

\* the process is started again: a new MemoryManager has an empty
\* process-local map; the cache and the database are other processes
Restart ==
    /\ pc = "idle"
    /\ in_memory # NoSession
    /\ in_memory' = NoSession
    /\ UNCHANGED <<redis, redis_ttl, pc, current_state, message, rule_action,
                   chosen_action, evalIn, phaseSeen, intentSeen, prevPhase,
                   prevIntent, notifyCount, pricingCount, turns, last_saved,
                   pg_conn, conversation_log, user_profiles, pg_failed, second, arg, result>>

\* ---------------------------------------------------- a second decide call
\* f"session:{user_id}", every user id to one shared key
_get_redis_keyShared(user_id) == <<"session:">>

\* f"session:{user_id}"
_get_redis_key(user_id) == <<"session:", user_id>>

\* the first call serves user id "A"; its actions above read and write redis
\* and in_memory, the entries of "A"
CacheGet(key) ==
    IF key = _get_redis_key("A") THEN redis
    ELSE IF key = _get_redis_key("B") THEN redisB
    ELSE NoSession

\* self._in_memory_sessions.get(user_id)
MemGet(user_id) == IF user_id = "A" THEN in_memory ELSE in_memoryB

\* decide of the second call up to the merge of the percept; the run without
\* the first call (aloneRedisB, aloneMemB) gets the same percept and the
\* same cache answer
LoadStep2(user_id, cacheOk, inputs) ==
    /\ pc2 = "idle"
    /\ turns < MaxTurns
    /\ LET key == _get_redis_key(user_id)
           hit == cacheOk /\ CacheGet(key) # NoSession
       IN  /\ \E p \in inputs :
                /\ current_state2' =
                      MergePercept(get_session_state(
                          IF cacheOk THEN CacheGet(key) ELSE NoSession,
                          MemGet(user_id)), p)
                /\ alone2' =
                      MergePercept(get_session_state(
                          IF cacheOk THEN aloneRedisB ELSE NoSession,
                          aloneMemB), p)
                /\ message2' = p.message
           /\ redis_ttl' = IF hit /\ key = _get_redis_key("A")
                           THEN SESSION_TTL_SECONDS ELSE redis_ttl
    /\ user_id2' = user_id
    /\ pc2' = "loaded"
    /\ turns' = turns + 1
    /\ UNCHANGED <<redis, in_memory, pc, current_state, message, rule_action,
                   chosen_action, evalIn, phaseSeen, intentSeen, prevPhase,
                   prevIntent, notifyCount, pricingCount, last_saved, pg_conn,
                   conversation_log, user_profiles, pg_failed, redisB,
                   in_memoryB, chosen_action2, aloneRedisB, aloneMemB, arg,
                   result>>

\* the second call's rule engine and learned-policy fallback
Decide2 ==
    /\ pc2 = "loaded"
    /\ LET r == evaluate_rules(current_state2)
       IN  /\ current_state2' = r.state
           /\ IF r.action # NoAction
              THEN chosen_action2' = r.action
              ELSE \E tok \in FallbackMessages(r.state) :
                      chosen_action2' = predict_action(tok)
           /\ notifyCount' =
                 IF user_id2 = "A" /\ r.action.action_type = "notify_human_renovation_lead"
                 THEN notifyCount + 1 ELSE notifyCount
           /\ pricingCount' =
                 IF user_id2 = "A" /\ r.action.action_type = "provide_pricing_info"
                 THEN pricingCount + 1 ELSE pricingCount
    /\ pc2' = "decided"
    /\ UNCHANGED <<redis, redis_ttl, in_memory, pc, current_state, message,
                   rule_action, chosen_action, evalIn, phaseSeen, intentSeen,
                   prevPhase, prevIntent, turns, last_saved, pg_conn,
                   conversation_log, user_profiles, pg_failed, redisB,
                   in_memoryB, user_id2, message2, aloneRedisB, aloneMemB,
                   alone2, arg, result>>

\* what the run without the first call stores for the second call's turn
AloneSaved ==
    LET r   == evaluate_rules(alone2)
        act == IF r.action # NoAction THEN r.action ELSE chosen_action2
    IN  StateToSave(r.state, message2, act)

\* an update_session_state that merges the entities of the entry it
\* overwrites into the state it writes
SaveStep2Merging(cacheOk) ==
    /\ pc2 = "decided"
    /\ LET new == StateToSave(current_state2, message2, chosen_action2)
           old == CacheGet(_get_redis_key(user_id2))
           s   == IF old = NoSession THEN new
                  ELSE [new EXCEPT !.entities = DictUpdate(old.entities, @)]
           key == _get_redis_key(user_id2)
       IN  /\ IF cacheOk
              THEN /\ redis' = IF key = _get_redis_key("A") THEN s ELSE redis
                   /\ redisB' = IF key # _get_redis_key("A") /\ key = _get_redis_key("B")
                                THEN s ELSE redisB
                   /\ redis_ttl' = IF key = _get_redis_key("A")
                                   THEN SESSION_TTL_SECONDS ELSE redis_ttl
                   /\ UNCHANGED <<in_memory, in_memoryB>>
              ELSE /\ in_memory' = IF user_id2 = "A" THEN s ELSE in_memory
                   /\ in_memoryB' = IF user_id2 = "A" THEN in_memoryB ELSE s
                   /\ UNCHANGED <<redis, redisB, redis_ttl>>
           /\ last_saved' = IF user_id2 = "A" THEN s ELSE last_saved
           /\ IF pg_conn /\ user_id2 = "A"
              THEN /\ user_profiles' = ProfileAfter(user_profiles, s, AllStatements)
                   /\ conversation_log' =
                         LogAfter(conversation_log, s, message2, chosen_action2,
                                  AllStatements)
              ELSE UNCHANGED <<conversation_log, user_profiles>>
    /\ IF user_id2 = "B"
       THEN IF cacheOk
            THEN aloneRedisB' = AloneSaved /\ UNCHANGED aloneMemB
            ELSE aloneMemB' = AloneSaved /\ UNCHANGED aloneRedisB
       ELSE UNCHANGED <<aloneRedisB, aloneMemB>>
    /\ pc2' = "idle"
    /\ user_id2' = NoVal
    /\ current_state2' = DefaultState
    /\ message2' = <<>>
    /\ chosen_action2' = NoAction
    /\ alone2' = DefaultState
    /\ UNCHANGED <<pc, current_state, message, rule_action, chosen_action,
                   evalIn, phaseSeen, intentSeen, prevPhase, prevIntent,
                   notifyCount, pricingCount, turns, pg_conn, pg_failed, arg,
                   result>>

\* the second call's update_session_state and return
SaveStep2(cacheOk) ==
    /\ pc2 = "decided"
    /\ LET s   == StateToSave(current_state2, message2, chosen_action2)
           key == _get_redis_key(user_id2)
       IN  /\ IF cacheOk
              THEN /\ redis' = IF key = _get_redis_key("A") THEN s ELSE redis
                   /\ redisB' = IF key # _get_redis_key("A") /\ key = _get_redis_key("B")
                                THEN s ELSE redisB
                   /\ redis_ttl' = IF key = _get_redis_key("A")
                                   THEN SESSION_TTL_SECONDS ELSE redis_ttl
                   /\ UNCHANGED <<in_memory, in_memoryB>>
              ELSE /\ in_memory' = IF user_id2 = "A" THEN s ELSE in_memory
                   /\ in_memoryB' = IF user_id2 = "A" THEN in_memoryB ELSE s
                   /\ UNCHANGED <<redis, redisB, redis_ttl>>
           /\ last_saved' = IF user_id2 = "A" THEN s ELSE last_saved
           /\ IF pg_conn /\ user_id2 = "A"
              THEN /\ user_profiles' = ProfileAfter(user_profiles, s, AllStatements)
                   /\ conversation_log' =
                         LogAfter(conversation_log, s, message2, chosen_action2,
                                  AllStatements)
              ELSE UNCHANGED <<conversation_log, user_profiles>>
    /\ IF user_id2 = "B"
       THEN IF cacheOk
            THEN aloneRedisB' = AloneSaved /\ UNCHANGED aloneMemB
            ELSE aloneMemB' = AloneSaved /\ UNCHANGED aloneRedisB
       ELSE UNCHANGED <<aloneRedisB, aloneMemB>>
    /\ pc2' = "idle"
    /\ user_id2' = NoVal
    /\ current_state2' = DefaultState
    /\ message2' = <<>>
    /\ chosen_action2' = NoAction
    /\ alone2' = DefaultState
    /\ UNCHANGED <<pc, current_state, message, rule_action, chosen_action,
                   evalIn, phaseSeen, intentSeen, prevPhase, prevIntent,
                   notifyCount, pricingCount, turns, pg_conn, pg_failed, arg,
                   result>>

\* two sessions served at the same time
TwoInputs ==
    {Percept("RenovatePolicy", <<>>, <<"u_plain">>),
     Percept("QueryPolicyDetails", PolicyUpper, <<"u_plain">>),
     Percept("ProvideContactInfo", EmailLower, <<"u_plain">>)}

LoadTwo == LoadStep(redis, TtlAfterRead, TwoInputs)

LoadTwoCacheError == LoadStep(NoSession, redis_ttl, TwoInputs)

LoadOther == LoadStep2("B", TRUE, TwoInputs)

LoadOtherCacheError == LoadStep2("B", FALSE, TwoInputs)

SaveOther == user_id2 = "B" /\ SaveStep2(TRUE)

SaveOtherCacheError == user_id2 = "B" /\ SaveStep2(FALSE)

\* two calls for the same session at the same time, the cache working
RaceInputs ==
    {Percept("QueryPolicyDetails", PolicyUpper, <<"u_plain">>),
     Percept("ProvideContactInfo", NameUpper, <<"u_plain">>),
     Percept("ProvideVehicleInfo", VehicleFull, <<"u_plain">>)}

LoadRace == LoadStep(redis, TtlAfterRead, RaceInputs)

LoadSame == LoadStep2("A", TRUE, RaceInputs)

SaveSame == user_id2 = "A" /\ SaveStep2(TRUE)

NextRace == LoadRace \/ Decide \/ Save \/ LoadSame \/ Decide2 \/ SaveSame

SpecRace == Init /\ [][NextRace]_vars

NextTwoSessions ==
    \/ LoadTwo \/ LoadTwoCacheError \/ Decide \/ Save \/ SaveCacheError
    \/ LoadOther \/ LoadOtherCacheError \/ Decide2 \/ SaveOther
    \/ SaveOtherCacheError

SpecTwoSessions == Init /\ [][NextTwoSessions]_vars

\* every storage mode at once: with and without a database connection, the
\* cache failing on reads and on writes, r.expire failing, the PostgreSQL
\* block failing; one percept a rule answers and one left to the policy module
ModeInputs ==
    {Percept("RenovatePolicy", <<>>, <<"u_plain">>),
     Percept("ProvideVehicleInfo", <<>>, <<"u_plain">>)}

InitModes ==
    /\ \E connected \in BOOLEAN : Constructed(connected)
    /\ arg = NoVal
    /\ result = NoVal

LoadModes == LoadStep(redis, TtlAfterRead, ModeInputs)

LoadModesCacheError == LoadStep(NoSession, redis_ttl, ModeInputs)

NextModes ==
    \/ LoadModes \/ LoadModesCacheError
    \/ Decide
    \/ Save \/ SaveCacheError \/ SaveExpireError
    \/ SaveDurableError \/ SaveBothError

SpecModes == InitModes /\ [][NextModes]_vars

\* the conversation of test scenarios 2-4: a renovation request without
\* details, then the policy number, then make, model and year; the policy
\* number comes with its key in either casing
ScenarioLength == 3

ScenarioInputs(n) ==
    CASE n = 1 -> {Percept("RenovatePolicy", <<>>, <<"u_plain">>)}
      [] n = 2 -> {Percept("QueryPolicyDetails", PolicyUpper, <<"u_plain">>),
                   Percept("QueryPolicyDetails", PolicyLower, <<"u_plain">>)}
      [] OTHER -> {Percept("ProvideVehicleInfo", VehicleFull, <<"u_plain">>)}

LoadScenario ==
    /\ turns < ScenarioLength
    /\ LoadStep(redis, TtlAfterRead, ScenarioInputs(turns + 1))

\* the cache works; the database is connected or not, its block and
\* r.expire may fail
NextScenario ==
    \/ LoadScenario
    \/ Decide
    \/ Save \/ SaveExpireError \/ SaveDurableError

SpecScenario == InitModes /\ [][NextScenario]_vars

\* perception answers with null for an entity it did not find
\* ({"email": null}): the dict is not empty, so it reaches decide as it is
EmailNone == << <<"email", NoVal>> >>

DerivedInputs ==
    {Percept("RenovatePolicy", <<>>, <<"u_plain">>),
     Percept("QueryPolicyDetails", PolicyUpper, <<"u_plain">>),
     Percept("ProvideContactInfo", EmailLower, <<"u_plain">>),
     Percept("ProvideContactInfo", EmailNone, <<"u_plain">>)}

LoadDerived == LoadStep(redis, TtlAfterRead, DerivedInputs)

NextDerived == LoadDerived \/ Decide \/ Save

SpecDerived == Init /\ [][NextDerived]_vars

\* a cache entry that is not the JSON of a state: json.loads (or the
\* normalisation of what it returned) raises inside the try of
\* get_session_state, and the read goes on as after any cache error
Malformed == [malformed |-> TRUE]

CacheRead(payload) == IF payload = Malformed THEN NoSession ELSE payload

\* another writer, or a fault, leaves an unreadable payload under the key
Corrupt ==
    /\ pc = "idle"
    /\ redis \notin {NoSession, Malformed}
    /\ redis' = Malformed
    /\ UNCHANGED <<redis_ttl, in_memory, pc, current_state, message,
                   rule_action, chosen_action, evalIn, phaseSeen, intentSeen,
                   prevPhase, prevIntent, notifyCount, pricingCount, turns,
                   last_saved, pg_conn, conversation_log, user_profiles,
                   pg_failed, second, arg, result>>

\* r.expire runs only when the read gave a state
LoadPayload ==
    LoadStep(CacheRead(redis),
             IF CacheRead(redis) # NoSession THEN SESSION_TTL_SECONDS ELSE redis_ttl,
             TwoInputs)

NextMalformed == LoadPayload \/ Decide \/ Save \/ SaveCacheError \/ Corrupt

SpecMalformed == Init /\ [][NextMalformed]_vars

\* --------------------------------------------------- helpers under test
\* everything but the result of the helper under test
session == <<redis, redis_ttl, in_memory, pc, current_state, message,
             rule_action, chosen_action, evalIn, phaseSeen, intentSeen,
             prevPhase, prevIntent, notifyCount, pricingCount, turns,
             last_saved, pg_conn, conversation_log, user_profiles, pg_failed,
             second, arg>>

\* str.upper() on the characters that occur
UpperChar(c) ==
    CASE c = "t" -> "T" [] c = "r" -> "R" [] c = "u" -> "U" [] c = "e" -> "E"
      [] c = "y" -> "Y" [] c = "s" -> "S" [] c = "i" -> "I" [] c = "í" -> "Í"
      [] c = "f" -> "F" [] c = "a" -> "A" [] c = "l" -> "L" [] c = "n" -> "N"
      [] c = "o" -> "O"
      [] OTHER -> c

\* the strings a flag may have been stored as, in four writings each
CoerceWords ==
    { <<"t", "r", "u", "e">>, <<"1">>, <<"y", "e", "s">>, <<"s", "i">>,
      <<"s", "í">>, <<"f", "a", "l", "s", "e">>, <<"0">>, <<"n", "o">>,
      <<"o", "n">>, <<"2">>, <<"y">>, <<>> }

Writings(w) ==
    { w,
      [i \in 1..Len(w) |-> UpperChar(w[i])],
      [i \in 1..Len(w) |-> IF i = 1 THEN UpperChar(w[i]) ELSE w[i]],
      <<" ">> \o w \o <<" ">> }

CoerceInputs ==
    {PyBool(TRUE), PyBool(FALSE), PyNone, PyList(<<>>), PyList(<<"x">>)}
    \cup {PyInt(n) : n \in {-1, 0, 1, 2}}
    \cup {PyStr(s) : s \in UNION {Writings(w) : w \in CoerceWords}}

InitCoerce ==
    /\ Constructed(FALSE)
    /\ arg \in CoerceInputs
    /\ result = [store |-> PyNone, rules |-> PyNone]

\* the store's coerce_bool applied to arg
CoerceInStore ==
    /\ result.store = PyNone
    /\ result' = [result EXCEPT !.store = PyBool(coerce_bool(arg))]
    /\ UNCHANGED session

\* the rule engine's _coerce_bool applied to arg
CoerceInRules ==
    /\ result.rules = PyNone
    /\ result' = [result EXCEPT !.rules = PyBool(_coerce_bool(arg))]
    /\ UNCHANGED session

NextCoerce == CoerceInStore \/ CoerceInRules

SpecCoerce == InitCoerce /\ [][NextCoerce]_vars

\* entity maps with keys in several casings, two of them known to
\* UPPER_MAP (email, vin) and one not (color)
MaxEntities == 3
CasedKeys == {"email", "Email", "EMAIL", "vin", "VIN", "color", "Color", "COLOR"}
EntityValues == {"a", "b"}

EntityMaps ==
    { d \in UNION {[1..n -> CasedKeys \X EntityValues] : n \in 0..MaxEntities} :
        \A i, j \in 1..Len(d) : d[i][1] = d[j][1] => i = j }

InitNorm ==
    /\ Constructed(FALSE)
    /\ arg \in EntityMaps
    /\ result = [calls |-> 0, prev |-> arg, out |-> arg]

\* norm_entities_upper applied to the map, then to its own output
Normalise ==
    /\ result.calls < 2
    /\ result' = [calls |-> result.calls + 1, prev |-> result.out,
                  out |-> norm_entities_upper(result.out)]
    /\ UNCHANGED session

NextNorm == Normalise

SpecNorm == InitNorm /\ [][NextNorm]_vars

\* the flags of a state, as get_session_state, evaluate_rules and
\* update_session_state treat them
StoreFlags ==
    {"policy_number_provided", "vehicle_details_provided",
     "contact_info_provided", "quote_provided", "renovation_lead_notified",
     "pricing_provided", "pricing_confirmed"}

\* the rule engine's list without conversation_ended
RuleFlagsShort ==
    {"pricing_provided", "pricing_confirmed", "renovation_lead_notified",
     "vehicle_info_acknowledged", "plan_selected",
     "lead_generation_complete", "expiry_captured", "services_up_to_date"}

RuleFlags ==
    {"pricing_provided", "pricing_confirmed", "renovation_lead_notified",
     "vehicle_info_acknowledged", "plan_selected", "conversation_ended",
     "lead_generation_complete", "expiry_captured", "services_up_to_date"}

DerivedFlags ==
    {"policy_number_provided", "vehicle_details_provided", "contact_info_provided"}

\* every flag a state carries: those of default_state and those the rules set
FlagNames ==
    {"policy_number_provided", "vehicle_details_provided",
     "contact_info_provided", "quote_provided", "renovation_lead_notified",
     "pricing_provided", "pricing_confirmed", "vehicle_info_acknowledged",
     "plan_selected", "conversation_ended", "lead_generation_complete",
     "expiry_captured", "services_up_to_date"}

\* forms a flag may have in a payload this program did not write
RawForms ==
    {PyBool(TRUE), PyBool(FALSE), PyNone, PyInt(0), PyInt(1),
     PyStr(<<"t", "r", "u", "e">>), PyStr(<<"f", "a", "l", "s", "e">>),
     PyStr(<<"s", "i">>), PyStr(<<"Y", "e", "s">>)}

\* the stored payload: one flag, or every flag, in a raw form
InitRawFlags ==
    /\ Constructed(FALSE)
    /\ \E v \in RawForms :
          \/ \E f \in FlagNames :
                arg = [g \in FlagNames |-> IF g = f THEN v ELSE PyBool(FALSE)]
          \/ arg = [g \in FlagNames |-> v]
    /\ result = [stage |-> "stored", source |-> NoVal, flags |-> arg]

\* decide's merge sets the derived flags whose entities the state holds
MergedFlags(flags, held) ==
    [g \in FlagNames |-> IF g \in held THEN PyBool(TRUE) ELSE flags[g]]

\* get_session_state on a cache hit (coercion of the store's flags), then
\* the merge
LoadRawFromCache ==
    /\ result.stage = "stored"
    /\ \E held \in {{}, DerivedFlags} :
          result' = [stage |-> "loaded", source |-> "cache",
                     flags |-> MergedFlags(
                        [g \in FlagNames |->
                            IF g \in StoreFlags
                            THEN PyBool(coerce_bool(result.flags[g]))
                            ELSE result.flags[g]], held)]
    /\ UNCHANGED session

\* get_session_state from the process-local map (a copy, entities
\* normalised, flags as they are), then the merge
LoadRawFromMap ==
    /\ result.stage = "stored"
    /\ \E held \in {{}, DerivedFlags} :
          result' = [stage |-> "loaded", source |-> "map",
                     flags |-> MergedFlags(result.flags, held)]
    /\ UNCHANGED session

\* evaluate_rules: the normalisation of its flags; a rule may then set one
\* of them
EvaluateRaw ==
    /\ result.stage = "loaded"
    /\ \E set \in {{}} \cup {{f} : f \in RuleFlags} :
          result' = [result EXCEPT
                        !.stage = "evaluated",
                        !.flags = [g \in FlagNames |->
                            IF g \in set THEN PyBool(TRUE)
                            ELSE IF g \in RuleFlags
                            THEN PyBool(_coerce_bool(result.flags[g]))
                            ELSE result.flags[g]]]
    /\ UNCHANGED session

\* update_session_state: derived flags, then the coercion of its flags
SaveRaw ==
    /\ result.stage = "evaluated"
    /\ \E held \in {{}, DerivedFlags} :
          result' = [result EXCEPT
                        !.stage = "saved",
                        !.flags = [g \in FlagNames |->
                            IF g \in held THEN PyBool(TRUE)
                            ELSE IF g \in StoreFlags
                            THEN PyBool(coerce_bool(result.flags[g]))
                            ELSE result.flags[g]]]
    /\ UNCHANGED session

NextRawFlags == LoadRawFromCache \/ LoadRawFromMap \/ EvaluateRaw \/ SaveRaw

SpecRawFlags == InitRawFlags /\ [][NextRawFlags]_vars

\* every cache operation succeeds
Next == Load \/ Decide \/ Save

Spec == Init /\ [][Next]_vars

\* the cache answers every read, and a cache write may fail
NextWriteFailures == LoadDegraded \/ Decide \/ Save \/ SaveCacheError

SpecWriteFailures == Init /\ [][NextWriteFailures]_vars

\* messages of any length, and a cache write may fail
LoadLong == LoadStep(redis, TtlAfterRead, LongInputs)

NextSummary == LoadLong \/ Decide \/ Save \/ SaveCacheError

SpecSummary == Init /\ [][NextSummary]_vars

\* cache reads and writes may fail, each on its own
NextDegraded == LoadDegraded \/ LoadCacheError \/ Decide \/ Save \/ SaveCacheError

SpecDegraded == Init /\ [][NextDegraded]_vars

\* the database is connected; the cache write and the PostgreSQL block may
\* fail, each on its own, and cache entries expire
LoadDurable == LoadStep(redis, TtlAfterRead, DurableInputs)

NextDurable ==
    \/ LoadDurable \/ Decide
    \/ Save \/ SaveCacheError \/ SaveDurableError \/ SaveBothError
    \/ SaveWithoutAction
    \/ Elapse

SpecDurable == InitDurable /\ [][NextDurable]_vars

\* the TTL refresh may fail on its own, and time passes
NextTtl ==
    \/ LoadDegraded \/ LoadExpireError \/ Decide
    \/ Save \/ SaveExpireError
    \/ Elapse

SpecTtl == Init /\ [][NextTtl]_vars

\* a cache write may fail, and the session may lie idle until its cache entry
\* runs out
NextIdle ==
    \/ LoadDegraded \/ Decide \/ Save \/ SaveCacheError \/ Elapse

SpecIdle == Init /\ [][NextIdle]_vars

\* a cache write may fail, and the process may be started again
NextRestart ==
    \/ LoadDegraded \/ Decide \/ Save \/ SaveCacheError \/ Restart

SpecRestart == Init /\ [][NextRestart]_vars

\* ------------------------------------------------------------------ claims
NOTIFY == "notify_human_renovation_lead"

\* evaluate_rules has just returned: evalIn is the state it was given,
\* current_state the state it left, rule_action what it returned
Evaluated == pc = "decided"

PhaseIn  == _get_conversation_phase(evalIn)
PhaseOut == _get_conversation_phase(current_state)

HasPolicyNumber(e) == Truthy(Get(e, "POLICY_NUMBER"))

HasAnyContact(e) ==
    \/ Truthy(Get(e, "CUSTOMER_NAME"))
    \/ Truthy(Get(e, "EMAIL"))
    \/ Truthy(Get(e, "PHONE_NUMBER"))

HasVehicleData(e) ==
    /\ Truthy(Get(e, "VEHICLE_MAKE"))
    /\ Truthy(Get(e, "VEHICLE_MODEL"))
    /\ Truthy(Get(e, "VEHICLE_YEAR"))

\* the entity is held under some casing of its key
HoldsAnyCase(e, K) == \E k \in Keys(e) : Upper(k) = K /\ Truthy(Get(e, k))

\* C1: with a working cache, evaluate_rules returns
\* notify_human_renovation_lead on at most one turn of a session, and never
\* on a state whose renovation_lead_notified is already true, whatever the
\* intent and however many entities the state holds.
C1_NotifyAtMostOnce ==
    /\ notifyCount <= 1
    /\ (Evaluated /\ evalIn.renovation_lead_notified)
          => rule_action.action_type # NOTIFY

\* a turn after the notification, on a state that still holds the policy
\* number and the contact, with a further contact message
C1_Witness ==
    /\ Evaluated
    /\ notifyCount = 1
    /\ evalIn.renovation_lead_notified
    /\ HasPolicyNumber(evalIn.entities)
    /\ HasAnyContact(evalIn.entities)
    /\ evalIn.current_intent = "ProvideContactInfo"
    /\ rule_action.action_type # NOTIFY

\* C2: renovation_lead_notified is monotone within a session: once a
\* notification was returned (the only way the flag becomes true), every
\* state decide loads, evaluates and saves afterwards has the flag true,
\* for every intent including Greeting.
C2_NotifiedMonotone ==
    (notifyCount >= 1 /\ pc # "idle") => current_state.renovation_lead_notified

\* C3: notify_human_renovation_lead is returned at most once per session
\* also when cache writes fail (the state goes to the process-local map)
\* and the cache answers reads again later.
C3_NotifyOnceAcrossCacheFailures == notifyCount < 2

\* C4: outside the phases ended and completed, a state that holds
\* POLICY_NUMBER and a contact and is not yet notified makes evaluate_rules
\* return notify_human_renovation_lead for every intent, set
\* renovation_lead_notified and lead_generation_complete, leave the phase
\* completed, and put the POLICY_NUMBER entity in the payload.
C4_Ready ==
    /\ Evaluated
    /\ PhaseIn \notin {"ended", "completed"}
    /\ HasPolicyNumber(evalIn.entities)
    /\ HasAnyContact(evalIn.entities)
    /\ ~evalIn.renovation_lead_notified

C4_LeadReadyNotifies ==
    C4_Ready =>
        /\ rule_action.action_type = NOTIFY
        /\ current_state.renovation_lead_notified
        /\ current_state.lead_generation_complete
        /\ PhaseOut = "completed"
        /\ rule_action.notification_data.policy_number
              = Get(evalIn.entities, "POLICY_NUMBER")

\* the lead becomes ready on a turn classified as a greeting
C4_Witness ==
    /\ C4_Ready
    /\ evalIn.current_intent = "Greeting"
    /\ rule_action.action_type = NOTIFY

\* C5: on every turn of decide, if after the merge of the percept the
\* session holds a policy number and a contact under whatever key casing,
\* in whatever phase, and is not yet notified, the action returned on that
\* turn is notify_human_renovation_lead with notification_data.
C5_HotLeadNeverMissed ==
    ( /\ Evaluated
      /\ HoldsAnyCase(evalIn.entities, "POLICY_NUMBER")
      /\ \/ HoldsAnyCase(evalIn.entities, "CUSTOMER_NAME")
         \/ HoldsAnyCase(evalIn.entities, "EMAIL")
         \/ HoldsAnyCase(evalIn.entities, "PHONE_NUMBER")
      /\ ~evalIn.renovation_lead_notified )
    => /\ chosen_action.action_type = NOTIFY
       /\ chosen_action.notification_data # NoVal

\* C6: with intent RenovatePolicy outside the terminal, expired and pricing
\* flows (and the lead not ready), evaluate_rules returns
\* ask_for_policy_number if POLICY_NUMBER is absent, else
\* ask_for_vehicle_info if any of make, model, year is missing, else
\* request_contact_info.
C6_CollectionOrder ==
    ( /\ Evaluated
      /\ evalIn.current_intent = "RenovatePolicy"
      /\ PhaseIn \in {"initial", "data_collection"}
      /\ ~_expired_flag(evalIn.conversation_summary, evalIn)
      /\ ~(HasPolicyNumber(evalIn.entities) /\ HasAnyContact(evalIn.entities)) )
    => rule_action.action_type =
          IF ~HasPolicyNumber(evalIn.entities) THEN "ask_for_policy_number"
          ELSE IF ~HasVehicleData(evalIn.entities) THEN "ask_for_vehicle_info"
          ELSE "request_contact_info"

\* C7: evaluate_rules never asks a satisfied question again: no
\* ask_for_policy_number when POLICY_NUMBER is present, no
\* ask_for_vehicle_info when make, model and year are present, no
\* request_contact_info when a contact is present.
C7_NoSatisfiedQuestionAgain ==
    Evaluated =>
        /\ rule_action.action_type = "ask_for_policy_number"
              => ~HasPolicyNumber(evalIn.entities)
        /\ rule_action.action_type = "ask_for_vehicle_info"
              => ~HasVehicleData(evalIn.entities)
        /\ rule_action.action_type = "request_contact_info"
              => ~HasAnyContact(evalIn.entities)

\* the order initial < data_collection | expired_* < pricing_discussion
\* < post_pricing_collection < completed < ended
PhaseRank(p) ==
    CASE p = "initial" -> 0
      [] p \in {"data_collection", "expired_verification",
                "expired_data_collection"} -> 1
      [] p = "pricing_discussion" -> 2
      [] p = "post_pricing_collection" -> 3
      [] p = "completed" -> 4
      [] p = "ended" -> 5

\* C8: the phase evaluate_rules sees on a turn is never at an earlier stage
\* than the phase it saw on the turn before, unless the turn before was a
\* Greeting and the phase is back at initial.
C8_PhaseNeverBackward ==
    ( /\ Evaluated
      /\ prevPhase # "none"
      /\ PhaseRank(phaseSeen) < PhaseRank(prevPhase) )
    => (phaseSeen = "initial" /\ prevIntent = "Greeting")

MidFlowPhases ==
    {"data_collection", "expired_verification", "expired_data_collection",
     "pricing_discussion", "post_pricing_collection"}

\* C9: evaluate_rules with intent Greeting on a mid-flow state leaves the
\* phase initial and the progress flags (policy, vehicle, contact, pricing,
\* expiry) false, and leaves conversation_summary as it was.
C9_GreetingResets ==
    ( /\ Evaluated
      /\ evalIn.current_intent = "Greeting"
      /\ PhaseIn \in MidFlowPhases )
    => /\ PhaseOut = "initial"
       /\ ~current_state.policy_number_provided
       /\ ~current_state.vehicle_details_provided
       /\ ~current_state.contact_info_provided
       /\ ~current_state.pricing_provided
       /\ ~current_state.pricing_confirmed
       /\ ~current_state.expiry_captured
       /\ current_state.conversation_summary = evalIn.conversation_summary

\* C10: in phase ended, evaluate_rules returns None for every intent,
\* thanks and bye included, and changes nothing but the turn counter.
C10_EndedReturnsNone ==
    (Evaluated /\ PhaseIn = "ended")
    => /\ rule_action = NoAction
       /\ current_state = [evalIn EXCEPT !.conversation_turn = @ + 1]

\* a courtesy close-out arrives in phase ended
C10_Witness ==
    /\ Evaluated
    /\ PhaseIn = "ended"
    /\ evalIn.current_intent \in {"ThankYou", "Bye"}
    /\ rule_action = NoAction

\* C10 as the specification states it: in phase ended, None exactly for the
\* intents that are not a courtesy close-out, a closing action for thanks/bye
C10_EndedCourtesyClosing ==
    (Evaluated /\ PhaseIn = "ended")
    => (rule_action = NoAction <=> evalIn.current_intent \notin {"ThankYou", "Bye"})

\* C11: in phase completed, evaluate_rules returns the closing action when
\* the intent is ThankYou or Bye and None for every other intent, Greeting
\* and RenovatePolicy included: no question and no notification follows the
\* completion.
C11_CompletedClosesOnly ==
    (Evaluated /\ PhaseIn = "completed")
    => IF evalIn.current_intent \in {"ThankYou", "Bye"}
       THEN rule_action.action_type = "end_conversation_after_completion"
       ELSE rule_action = NoAction

\* a greeting arrives after the completion
C11_Witness ==
    /\ Evaluated
    /\ PhaseIn = "completed"
    /\ evalIn.current_intent = "Greeting"
    /\ rule_action = NoAction

EndingIntents == {"Bye", "Disagreement", "CancelRenovation"}

\* conversation_ended of the session: of the state decide holds, or of the
\* stored state between two turns
EndedNow ==
    IF pc = "idle" THEN redis # NoSession /\ redis.conversation_ended
    ELSE current_state.conversation_ended

C12_Applies ==
    /\ Evaluated
    /\ evalIn.current_intent \in EndingIntents
    /\ PhaseIn \notin {"ended", "completed"}
    /\ ~(HasPolicyNumber(evalIn.entities) /\ HasAnyContact(evalIn.entities))

C12_EndingAction ==
    C12_Applies =>
        /\ rule_action.action_type =
              CASE evalIn.current_intent = "Disagreement" -> "end_conversation"
                [] evalIn.current_intent = "CancelRenovation" -> "cancel_process"
                [] evalIn.current_intent = "Bye" ->
                      IF \/ HasPolicyNumber(evalIn.entities)
                         \/ Truthy(Get(evalIn.entities, "CUSTOMER_NAME"))
                      THEN "end_conversation_with_followup"
                      ELSE "end_conversation"
        /\ current_state.conversation_ended
        /\ PhaseOut = "ended"

C13_PricingAtMostOnce == pricingCount <= 1

IsSessionState(s) == DOMAIN s = DOMAIN DefaultState

IsFreshDefault(s) ==
    /\ s.entities = <<>>
    /\ s.conversation_turn = 0
    /\ s.status = "new_session"
    /\ s.current_intent = NoVal
    /\ ~s.policy_number_provided /\ ~s.vehicle_details_provided
    /\ ~s.contact_info_provided /\ ~s.quote_provided
    /\ ~s.renovation_lead_notified /\ ~s.pricing_provided
    /\ ~s.pricing_confirmed

\* C15: get_session_state returns a session state whether the cache answers
\* the read or fails it (an unavailable cache fails every read) and whether
\* or not the fallback map holds the session; when neither the cache nor
\* the fallback map holds it, the state is the fresh default.
C15_LoadAlwaysReturnsState ==
    /\ \A c \in {redis, NoSession} :
          LET s == get_session_state(c, in_memory)
          IN  /\ IsSessionState(s)
              /\ (c = NoSession /\ in_memory = NoSession) => IsFreshDefault(s)
    /\ pc = "loaded" =>
          /\ IsSessionState(current_state)
          /\ (redis = NoSession /\ in_memory = NoSession) =>
                \E p \in DegradedInputs : current_state = MergePercept(DefaultState, p)

\* the cache holds the session, its read failed and the fallback map is
\* empty: the load returned the default
C15_Witness ==
    /\ pc = "loaded"
    /\ redis # NoSession
    /\ in_memory = NoSession
    /\ current_state.status = "new_session"
    /\ current_state.conversation_turn = 0

\* the text of the summary after the turn's appends, before any truncation
C16_Appended ==
    current_state.conversation_summary
    \o (IF message = <<>> THEN <<>> ELSE <<"User:">> \o message \o <<"|">>)
    \o (IF chosen_action = NoAction \/ chosen_action.message_to_customer = <<>>
        THEN <<>>
        ELSE <<"Agent:">> \o chosen_action.message_to_customer \o <<"|">>)

\* C16: every stored summary is at most SUMMARY_MAX_CHARS long, and the
\* summary a Save writes is the appended text when that fits and otherwise
\* exactly the last SUMMARY_MAX_CHARS of the appended text.
C16_SummaryBounded ==
    /\ \A st \in {redis, in_memory} :
          st # NoSession => Len(st.conversation_summary) <= SUMMARY_MAX_CHARS
    /\ pc = "decided" =>
          LET saved == StateToSave(current_state, message, chosen_action).conversation_summary
              n     == Len(C16_Appended)
          IN  /\ Len(saved) <= SUMMARY_MAX_CHARS
              /\ n <= SUMMARY_MAX_CHARS => saved = C16_Appended
              /\ n > SUMMARY_MAX_CHARS =>
                    /\ Len(saved) = SUMMARY_MAX_CHARS
                    /\ \A i \in 1..SUMMARY_MAX_CHARS :
                          saved[i] = C16_Appended[n - SUMMARY_MAX_CHARS + i]

\* the first Save of a session, with a message longer than the bound: the
\* stored summary is full, its head is gone and its newest text is there
C16_Witness ==
    /\ pc = "idle"
    /\ turns = 1
    /\ redis # NoSession
    /\ Len(redis.conversation_summary) = SUMMARY_MAX_CHARS
    /\ redis.conversation_summary[1] # "User:"
    /\ redis.conversation_summary[SUMMARY_MAX_CHARS] = "|"

\* one update_session_state step from a decided turn, given action a: it
\* returns; when the cache does not hold the saved state afterwards the
\* process-local map does; when the PostgreSQL block did not write all its
\* rows the cache or the map still holds the saved state
C17_SaveStep(a) ==
    LET s == StateToSave(current_state, message, a)
    IN  /\ pc' = "idle"
        /\ last_saved' = s
        /\ redis' # s => (in_memory' = s /\ redis' = redis)
        /\ conversation_log' # LogAfter(conversation_log, s, message, a, AllStatements)
              => (redis' = s \/ in_memory' = s)

\* C17: update_session_state returns under every combination of a failing
\* cache write and a failing PostgreSQL block; after a failed cache write
\* the saved state is in the process-local map, and after a failed
\* PostgreSQL block the cache (or map) write of the turn is in place.
C17_SaveSurvivesFailures ==
    [][pc = "decided" => (C17_SaveStep(chosen_action) \/ C17_SaveStep(NoAction))]_vars

\* first turn, database connected: the cache write failed (the state is in
\* the map only) and the PostgreSQL block failed before its first row
C17_Witness ==
    /\ pc = "idle"
    /\ turns = 1
    /\ pg_conn
    /\ last_saved # NoSession
    /\ redis = NoSession
    /\ in_memory = last_saved
    /\ conversation_log = <<>>

C18_Same(a, b) ==
    /\ a.status = b.status
    /\ a.entities = b.entities
    /\ a.policy_number_provided = b.policy_number_provided
    /\ a.vehicle_details_provided = b.vehicle_details_provided
    /\ a.contact_info_provided = b.contact_info_provided
    /\ a.quote_provided = b.quote_provided
    /\ a.renovation_lead_notified = b.renovation_lead_notified
    /\ a.pricing_provided = b.pricing_provided
    /\ a.pricing_confirmed = b.pricing_confirmed

\* C18: between two turns, when the cache or the process-local map holds
\* the state written by the latest update_session_state, what
\* get_session_state returns next has that state's status, entities and
\* flags (after a restart the map is empty and the cache alone answers).
C18_LoadReturnsLastSave ==
    (/\ pc = "idle"
     /\ last_saved # NoSession
     /\ (redis = last_saved \/ in_memory = last_saved))
    => C18_Same(get_session_state(redis, in_memory), last_saved)

\* the rows a step added at the end of conversation_log
C19_Appended ==
    SubSeq(conversation_log', Len(conversation_log) + 1, Len(conversation_log'))

\* the rows already written are the beginning of the log after the step
C19_RowsKept ==
    /\ Len(conversation_log') >= Len(conversation_log)
    /\ SubSeq(conversation_log', 1, Len(conversation_log)) = conversation_log

\* an update_session_state given action a, whose PostgreSQL block reported
\* no error, added one user row and, iff a is an action, one agent row
C19_RowsOfTurn(a) ==
    /\ last_saved' = StateToSave(current_state, message, a)
    /\ Len(C19_Appended) = (IF a # NoAction THEN 2 ELSE 1)
    /\ C19_Appended[1].role = "user"
    /\ C19_Appended[1].message = message
    /\ C19_Appended[1].action_type = NoVal
    /\ a # NoAction =>
          /\ C19_Appended[2].role = "agent"
          /\ C19_Appended[2].action_type = a.action_type
          /\ C19_Appended[2].message = a.message_to_customer

\* C19: no step changes or removes a row of conversation_log (Saves with
\* any failure, cache expiry); only update_session_state adds rows, and
\* when the database is connected and its block reported no error it adds
\* exactly one user row, plus one agent row iff an action was given.
C19_LogAppendOnly ==
    [][/\ C19_RowsKept
       /\ pc # "decided" => conversation_log' = conversation_log
       /\ (pc = "decided" /\ pg_conn /\ ~pg_failed') =>
             (C19_RowsOfTurn(chosen_action) \/ C19_RowsOfTurn(NoAction))]_vars

\* two Saves, the second without an action, no database error, and the
\* cache entry has expired since: the three rows are there
C19_Witness ==
    /\ pc = "idle"
    /\ turns = 2
    /\ pg_conn /\ ~pg_failed
    /\ redis = NoSession
    /\ last_saved # NoSession
    /\ Len(conversation_log) = 3
    /\ conversation_log[1].role = "user"
    /\ conversation_log[2].role = "agent"
    /\ conversation_log[3].role = "user"

\* C20: while a turn runs on a session found in the cache, the entry's
\* remaining TTL is SESSION_TTL_SECONDS (the read refreshed it, and so did
\* the read before it); between turns an entry written by
\* update_session_state has a TTL that started at SESSION_TTL_SECONDS and
\* has only run down since.
C20_SlidingTtl ==
    /\ (pc \in {"loaded", "decided"} /\ redis # NoSession)
          => redis_ttl = SESSION_TTL_SECONDS
    /\ (pc = "idle" /\ redis # NoSession)
          => redis_ttl \in 1..SESSION_TTL_SECONDS

\* a step of the second call (serving session "B") leaves the entries of
\* session "A" as they are, and a step of the first call (serving "A")
\* leaves the entries of "B" as they are
C21_NoInterference ==
    /\ pc2' # pc2 => UNCHANGED <<redis, in_memory>>
    /\ pc' # pc => UNCHANGED <<redisB, in_memoryB>>

\* C21: with decide calls of two session ids interleaved in any order, and
\* cache reads and writes failing or not, no call changes the other
\* session's cache entry or fallback-map entry, the state a call loads is
\* the one it would load with the other session absent, and the entries of
\* a session are what they would be had its turns run alone.
C21_SessionsIndependent ==
    /\ [](/\ redisB = aloneRedisB
          /\ in_memoryB = aloneMemB
          /\ pc2 = "loaded" => current_state2 = alone2)
    /\ [][C21_NoInterference]_vars

\* session "B" has completed a turn and is in its next one while session
\* "A" is in the middle of a turn of its own
C21_Witness ==
    /\ pc = "decided"
    /\ pc2 = "decided"
    /\ user_id2 = "B"
    /\ redisB # NoSession
    /\ current_state.entities # current_state2.entities

C29_NotifyOnceWhenRacing ==
    /\ (pc = "decided" /\ pc2 = "decided" /\ user_id2 = "A")
          => ~(/\ chosen_action.action_type = NOTIFY
               /\ chosen_action2.action_type = NOTIFY)
    /\ notifyCount <= 1

\* every key is its own canonical form, and no two keys have the same one
C23_Canonical(e) ==
    /\ \A k \in Keys(e) : Upper(k) = k
    /\ \A k1, k2 \in Keys(e) : Upper(k1) = Upper(k2) => k1 = k2

\* C23: the entities of every state given to evaluate_rules and of every
\* state update_session_state stored have canonical uppercase keys only,
\* and no two keys that differ by letter case.
C23_EntityKeysCanonical ==
    /\ Evaluated => C23_Canonical(evalIn.entities)
    /\ redis # NoSession => C23_Canonical(redis.entities)
    /\ in_memory # NoSession => C23_Canonical(in_memory.entities)

\* C24: after get_session_state, evaluate_rules and update_session_state
\* have run on a state whose flags were stored in raw forms (strings,
\* integers, None), loaded from the cache or from the process-local map,
\* every flag of the state that is stored is a bool.
C24_FlagsAreBooleans ==
    result.stage = "saved" => \A g \in FlagNames : result.flags[g].py = "bool"

\* a cycle that loaded the string "si" for conversation_ended from the map
C24_Witness ==
    /\ result.stage = "saved"
    /\ result.source = "map"
    /\ arg["conversation_ended"] = PyStr(<<"s", "i">>)
    /\ result.flags["conversation_ended"] = PyBool(TRUE)

\* the values the specification lists as true
C26_ListedTrue(v) ==
    CASE v.py = "bool" -> v.b
      [] v.py = "int"  -> v.n = 1
      [] v.py = "str"  ->
            Lower(v.s) \in {<<"t", "r", "u", "e">>, <<"1">>, <<"y", "e", "s">>,
                            <<"s", "i">>, <<"s", "í">>}
      [] OTHER -> FALSE

\* C26: coerce_bool of the store and _coerce_bool of the rule engine both
\* return true exactly for true, 1, "true", "1", "yes", "si", "sí" in any
\* letter case, and false for every other value.
C26_CoerceBoolTable ==
    /\ result.store # PyNone => result.store = PyBool(C26_ListedTrue(arg))
    /\ result.rules # PyNone => result.rules = PyBool(C26_ListedTrue(arg))

\* C25: norm_entities_upper is idempotent: applied to its own output it
\* returns that output, for every entity map, also when several keys of
\* the map fall on one canonical key.
C25_NormIdempotent == result.calls = 2 => result.out = result.prev

\* a map in which two keys collide, normalised twice
C25_Witness ==
    /\ result.calls = 2
    /\ Len(arg) = 3
    /\ Len(result.out) = 2
    /\ Get(arg, "email") = "a"
    /\ Get(arg, "EMAIL") = "b"

C27_StoresUntouched ==
    /\ redis' = redis
    /\ in_memory' = in_memory
    /\ last_saved' = last_saved
    /\ conversation_log' = conversation_log
    /\ user_profiles' = user_profiles

\* C27: in every decide call, with the cache or the database failing or
\* not, the decision is the rule engine's action when there is one and the
\* policy module's fallback action otherwise, never None; nothing is
\* stored before the decision, and the one step after it is
\* update_session_state with the state of the call and the chosen action.
C27_EveryTurnYieldsAction ==
    [][ /\ pc = "idle" => (pc' = "loaded" /\ C27_StoresUntouched)
        /\ pc = "loaded" =>
              /\ pc' = "decided"
              /\ C27_StoresUntouched
              /\ chosen_action' # NoAction
              /\ rule_action' # NoAction => chosen_action' = rule_action'
              /\ rule_action' = NoAction =>
                    chosen_action'.action_type = "fallback_response"
        /\ pc = "decided" =>
              /\ pc' = "idle"
              /\ last_saved' = StateToSave(current_state, message, chosen_action)
              /\ redis' = last_saved' \/ in_memory' = last_saved'
      ]_vars

\* a call answered by the policy module, with a database connected whose
\* block failed in an earlier call, and a state that went to the map
C27_Witness ==
    /\ pc = "decided"
    /\ rule_action = NoAction
    /\ chosen_action.action_type = "fallback_response"
    /\ pg_conn
    /\ pg_failed
    /\ in_memory # NoSession

C28_Expected == <<"ask_for_info", "ask_for_info", "generate_quote">>

\* C28: in the conversation of test scenarios 2-4 on a fresh session (a
\* renovation request without details, then the policy number, then the
\* vehicle's make, model and year) decide returns, turn by turn, actions
\* of type ask_for_info, ask_for_info and generate_quote.
C28_ScenarioActions ==
    pc = "decided" => chosen_action.action_type = C28_Expected[turns]

C30_FlagsMatch(s) ==
    /\ s.contact_info_provided
          <=> (Truthy(Get(s.entities, "EMAIL")) \/ Truthy(Get(s.entities, "PHONE_NUMBER")))
    /\ s.policy_number_provided <=> Truthy(Get(s.entities, "POLICY_NUMBER"))
    /\ s.vehicle_details_provided
          <=> /\ Truthy(Get(s.entities, "VEHICLE_MAKE"))
              /\ Truthy(Get(s.entities, "VEHICLE_MODEL"))
              /\ Truthy(Get(s.entities, "VEHICLE_YEAR"))

\* C30: in every state update_session_state has stored, each derived flag
\* equals its entity predicate: contact_info_provided iff EMAIL or
\* PHONE_NUMBER is present, policy_number_provided iff POLICY_NUMBER is
\* present, vehicle_details_provided iff VEHICLE_MAKE, VEHICLE_MODEL and
\* VEHICLE_YEAR are all present.
C30_DerivedFlagsMatchEntities ==
    last_saved # NoSession => C30_FlagsMatch(last_saved)

\* C31: when the cache entry of the session is a malformed or unreadable
\* payload, get_session_state returns the fresh default state (status
\* new_session, no entities).
C31_MalformedIsNotFound ==
    redis = Malformed =>
        IsFreshDefault(get_session_state(CacheRead(redis), in_memory))

C32_AskedAgain(question) ==
    /\ pc = "decided"
    /\ chosen_action.action_type = question
    /\ evalIn.last_action_type = question

\* C32: in the expired-policy flow ask_expiry_date and ask_services_status
\* are each returned at most once per session: no turn returns one of them
\* to a session whose previous rule action was that same question.
C32_ExpiredQuestionsOnce ==
    /\ ~C32_AskedAgain("ask_expiry_date")
    /\ ~C32_AskedAgain("ask_services_status")

C33_ExpiryCaptured(s) ==
    \/ s.expiry_captured
    \/ Truthy(Get(s.entities, "EXPIRY_DAYS"))
    \/ Truthy(Get(s.entities, "EXPIRY_DATE"))

C33_Returned(types) == pc = "decided" /\ rule_action.action_type \in types

\* C33: ask_expiry_date is returned only on a state without expiry
\* information, ask_services_status only on a state whose services are not
\* confirmed, and a collection question that leaves the context
\* expired_data_collection only on a state with expiry captured and
\* services confirmed.
C33_ExpiredFlowOrdering ==
    /\ C33_Returned({"ask_expiry_date"}) => ~C33_ExpiryCaptured(current_state)
    /\ C33_Returned({"ask_services_status"}) => ~current_state.services_up_to_date
    /\ ( /\ C33_Returned({"ask_for_policy_number", "ask_for_vehicle_info",
                          "request_contact_info"})
         /\ current_state.context = "expired_data_collection" )
          => /\ C33_ExpiryCaptured(current_state)
             /\ current_state.services_up_to_date

\* the policy number is asked for from the expired flow, after the expiry
\* and the services questions were answered
C33_Witness ==
    /\ C33_Returned({"ask_for_policy_number"})
    /\ current_state.context = "expired_data_collection"
    /\ evalIn.last_action_type = "ask_services_status"
    /\ current_state.expiry_captured

C34_Applies ==
    /\ pc = "decided"
    /\ phaseSeen = "pricing_discussion"
    /\ ~evalIn.pricing_confirmed
    /\ \/ Truthy(Get(evalIn.entities, "PLAN_SELECTION"))
       \/ evalIn.current_intent = "ConfirmRenovation"

\* C34: evaluate_rules on a state in phase pricing_discussion with
\* pricing_confirmed false and a PLAN_SELECTION entity or the intent
\* ConfirmRenovation returns request_contact_info and leaves
\* pricing_confirmed and plan_selected true and a state whose phase is
\* post_pricing_collection.
C34_PlanSelectionLatches ==
    C34_Applies =>
        /\ rule_action.action_type = "request_contact_info"
        /\ current_state.pricing_confirmed
        /\ current_state.plan_selected
        /\ _get_conversation_phase(current_state) = "post_pricing_collection"

\* C35: evaluate_rules on a state whose phase is data_collection,
\* expired_data_collection or post_pricing_collection returns none of
\* provide_pricing_info, provide_payment_info, provide_claims_info.
C35_NoFaqWhileCollecting ==
    ( /\ pc = "decided"
      /\ phaseSeen \in {"data_collection", "expired_data_collection",
                        "post_pricing_collection"} )
        => rule_action.action_type \notin
              {"provide_pricing_info", "provide_payment_info", "provide_claims_info"}

C36_Asked ==
    /\ pc = "decided"
    /\ evalIn.current_intent \in {"Confusion", "AskForClarification"}

C36_Collecting ==
    phaseSeen \in {"data_collection", "expired_data_collection",
                   "post_pricing_collection"}

\* C36: with intent Confusion or AskForClarification in a data-collection
\* phase the returned message_to_customer is last_prompt, and last_prompt,
\* waiting_for and last_action_type are left as they were; outside the
\* data-collection phases the generic explanation action is returned.
C36_ClarificationReissuesPrompt ==
    /\ (C36_Asked /\ C36_Collecting) =>
          /\ rule_action.message_to_customer = evalIn.last_prompt
          /\ current_state.last_prompt = evalIn.last_prompt
          /\ current_state.waiting_for = evalIn.waiting_for
          /\ current_state.last_action_type = evalIn.last_action_type
    /\ (C36_Asked /\ ~C36_Collecting) => rule_action.action_type = "explain"

C37_Applies ==
    /\ pc = "decided"
    /\ evalIn.current_intent = "Unknown"
    /\ phaseSeen \notin {"ended", "completed"}

C37_Asks ==
    {"ask_for_policy_number", "ask_for_vehicle_info", "request_contact_info",
     "ask_expiry_date", "ask_services_status"}

\* C37: evaluate_rules with intent Unknown in a non-terminal phase always
\* returns an action: ask_for_vehicle_info when the entities hold a
\* POLICY_NUMBER and no VEHICLE_MAKE, ask_for_policy_number when they hold
\* a vehicle make or model and no POLICY_NUMBER, and otherwise an ask or
\* clarify_intent.
C37_UnknownNeverNone ==
    C37_Applies =>
        /\ rule_action # NoAction
        /\ ( /\ Truthy(Get(evalIn.entities, "POLICY_NUMBER"))
             /\ ~Truthy(Get(evalIn.entities, "VEHICLE_MAKE")) )
              => rule_action.action_type = "ask_for_vehicle_info"
        /\ ( /\ \/ Truthy(Get(evalIn.entities, "VEHICLE_MAKE"))
                \/ Truthy(Get(evalIn.entities, "VEHICLE_MODEL"))
             /\ ~Truthy(Get(evalIn.entities, "POLICY_NUMBER")) )
              => rule_action.action_type = "ask_for_policy_number"
        /\ rule_action.action_type \in C37_Asks \cup {"clarify_intent"}


\* C38: whenever evaluate_rules returns None, the state after the call equals
\* the state before it apart from conversation_turn, which is one higher; no
\* latch flag, context, waiting_for or last_prompt has changed.
C38_NoneCommitsNothing ==
    (pc = "decided" /\ rule_action = NoAction) =>
        current_state = [evalIn EXCEPT !.conversation_turn = @ + 1]


\* C39: once a session has seen no load and no save for the whole TTL, so that
\* its cache entry runs out, the next get_session_state yields a fresh default
\* state, also when an earlier save went to the process-local map.
C39_IdleSessionIsFresh ==
    [][ (pc = "idle" /\ redis # NoSession /\ redis' = NoSession) =>
            IsFreshDefault(get_session_state(redis', in_memory')) ]_vars


C40_Refined ==
    _classify_intent_with_context(
        IF Truthy(evalIn.current_intent) THEN evalIn.current_intent ELSE "Unknown",
        evalIn.entities, evalIn, evalIn.conversation_summary)

C40_Applies ==
    /\ pc = "decided"
    /\ HasTok(message, EXPIRED_TOKENS)
    /\ phaseSeen \notin {"ended", "completed"}
    /\ ~_ready_to_notify(evalIn.entities, evalIn)
    /\ C40_Refined \notin {"Bye", "ThankYou", "Disagreement", "CancelRenovation",
                           "Greeting"}

\* C40: when the user's message of the turn being processed holds an expiry
\* keyword and no earlier rule answers the turn, the evaluate_rules of that
\* turn enters the expired-policy flow: the transcript it reads holds the
\* message.
C40_KeywordSeenSameTurn ==
    C40_Applies =>
        \/ C40_Refined = "ExpiredPolicy"
        \/ _expired_flag(evalIn.conversation_summary, evalIn)
        \/ phaseSeen \in {"expired_verification", "expired_data_collection"}

=============================================================================
